---- MODULE Spec2Model ----
(***************************************************************************)
(* Provider-aware configuration resolution of oh-my-opencode's installer:  *)
(* the model resolution engine (utils.ts, model-fallback part) and the     *)
(* plugin registry editor (config-manager.ts).                             *)
(***************************************************************************)
EXTENDS Integers, Sequences, FiniteSets, TLC

VARIABLES
  installConfig,  \* InstallConfig handed to generateModelConfig
  capability,     \* ModelCapability handed to resolveModel
  resolved,       \* value returned by resolveModel ("" before the call)
  generated,      \* GeneratedOmoConfig returned by generateModelConfig
  pc,             \* position of the resolution pass
  fs,             \* the config directory: opencode.jsonc and opencode.json
  lastResult,     \* ConfigMergeResult of the last addPluginToOpenCodeConfig
  calls,          \* number of addPluginToOpenCodeConfig calls made so far
  lastCall,       \* observer: inputs, plugin entry and outcome of the last call
  before,         \* observer: the config directory as the last call found it
  omo,            \* the settings file oh-my-opencode.json
  input,          \* the arguments of the function or run under check
  output,         \* what it returned
  configContext   \* the module-level configContext of config-manager.ts

mvars == <<installConfig, capability, resolved, generated, pc>>
pvars == <<fs, lastResult, calls, lastCall, before>>
xvars == <<omo, input, output, configContext>>
vars  == <<installConfig, capability, resolved, generated, pc,
           fs, lastResult, calls, lastCall, before, omo, input, output,
           configContext>>

(***************************************************************************)
(* utils.ts: model resolution engine                                       *)
(***************************************************************************)

NativeProvider == {"claude", "openai", "gemini"}

ModelCapability ==
  {"unspecified-high", "unspecified-low", "quick", "ultrabrain",
   "visual-engineering", "artistry", "writing", "glm"}

InstallConfig ==
  [hasClaude : BOOLEAN, isMax20 : BOOLEAN, hasOpenAI : BOOLEAN,
   hasGemini : BOOLEAN, hasCopilot : BOOLEAN, hasOpencodeZen : BOOLEAN,
   hasZaiCodingPlan : BOOLEAN]

NATIVE_FALLBACK_CHAINS ==
  [c \in ModelCapability |->
    CASE c = "unspecified-high" ->
           << [provider |-> "claude", model |-> "anthropic/claude-opus-4-5"],
              [provider |-> "openai", model |-> "openai/gpt-5.2"],
              [provider |-> "gemini", model |-> "google/gemini-3-pro-preview"] >>
      [] c = "unspecified-low" ->
           << [provider |-> "claude", model |-> "anthropic/claude-sonnet-4-5"],
              [provider |-> "openai", model |-> "openai/gpt-5.2"],
              [provider |-> "gemini", model |-> "google/gemini-3-flash-preview"] >>
      [] c = "quick" ->
           << [provider |-> "claude", model |-> "anthropic/claude-haiku-4-5"],
              [provider |-> "openai", model |-> "openai/gpt-5.1-codex-mini"],
              [provider |-> "gemini", model |-> "google/gemini-3-flash-preview"] >>
      [] c = "ultrabrain" ->
           << [provider |-> "openai", model |-> "openai/gpt-5.2-codex"],
              [provider |-> "claude", model |-> "anthropic/claude-opus-4-5"],
              [provider |-> "gemini", model |-> "google/gemini-3-pro-preview"] >>
      [] c = "visual-engineering" ->
           << [provider |-> "gemini", model |-> "google/gemini-3-pro-preview"],
              [provider |-> "openai", model |-> "openai/gpt-5.2"],
              [provider |-> "claude", model |-> "anthropic/claude-sonnet-4-5"] >>
      [] c = "artistry" ->
           << [provider |-> "gemini", model |-> "google/gemini-3-pro-preview"],
              [provider |-> "openai", model |-> "openai/gpt-5.2"],
              [provider |-> "claude", model |-> "anthropic/claude-opus-4-5"] >>
      [] c = "writing" ->
           << [provider |-> "gemini", model |-> "google/gemini-3-flash-preview"],
              [provider |-> "openai", model |-> "openai/gpt-5.2"],
              [provider |-> "claude", model |-> "anthropic/claude-sonnet-4-5"] >>
      [] c = "glm" -> << >> ]

OPENCODE_ZEN_MODELS ==
  [c \in ModelCapability |->
    CASE c = "unspecified-high"   -> "opencode/claude-opus-4-5"
      [] c = "unspecified-low"    -> "opencode/claude-sonnet-4-5"
      [] c = "quick"              -> "opencode/claude-haiku-4-5"
      [] c = "ultrabrain"         -> "opencode/gpt-5.2-codex"
      [] c = "visual-engineering" -> "opencode/gemini-3-pro"
      [] c = "artistry"           -> "opencode/gemini-3-pro"
      [] c = "writing"            -> "opencode/gemini-3-flash"
      [] c = "glm"                -> "opencode/glm-4.7-free" ]

GITHUB_COPILOT_MODELS ==
  [c \in ModelCapability |->
    CASE c = "unspecified-high"   -> "github-copilot/claude-opus-4.5"
      [] c = "unspecified-low"    -> "github-copilot/claude-sonnet-4.5"
      [] c = "quick"              -> "github-copilot/claude-haiku-4.5"
      [] c = "ultrabrain"         -> "github-copilot/gpt-5.2-codex"
      [] c = "visual-engineering" -> "github-copilot/gemini-3-pro-preview"
      [] c = "artistry"           -> "github-copilot/gemini-3-pro-preview"
      [] c = "writing"            -> "github-copilot/gemini-3-flash-preview"
      [] c = "glm"                -> "github-copilot/gpt-5.2" ]

ZAI_MODEL == "zai-coding-plan/glm-4.7"

\* Object.keys(AGENT_REQUIREMENTS), in declaration order.
AgentRoles ==
  << "Sisyphus", "oracle", "librarian", "explore", "multimodal-looker",
     "Prometheus (Planner)", "Metis (Plan Consultant)",
     "Momus (Plan Reviewer)", "Atlas" >>

\* Object.keys(CATEGORY_REQUIREMENTS), in declaration order.
CategoryNames ==
  << "visual-engineering", "ultrabrain", "artistry", "quick",
     "unspecified-low", "unspecified-high", "writing" >>

Range(s) == {s[i] : i \in DOMAIN s}

\* A requirement without a variant is a record without the variant field.
AGENT_REQUIREMENTS ==
  [r \in Range(AgentRoles) |->
    CASE r = "Sisyphus"                -> [capability |-> "unspecified-high"]
      [] r = "oracle"                  -> [capability |-> "ultrabrain", variant |-> "high"]
      [] r = "librarian"               -> [capability |-> "glm"]
      [] r = "explore"                 -> [capability |-> "quick"]
      [] r = "multimodal-looker"       -> [capability |-> "visual-engineering"]
      [] r = "Prometheus (Planner)"    -> [capability |-> "unspecified-high"]
      [] r = "Metis (Plan Consultant)" -> [capability |-> "unspecified-high"]
      [] r = "Momus (Plan Reviewer)"   -> [capability |-> "ultrabrain", variant |-> "medium"]
      [] r = "Atlas"                   -> [capability |-> "unspecified-high"] ]

CATEGORY_REQUIREMENTS ==
  [c \in Range(CategoryNames) |->
    CASE c = "visual-engineering" -> [capability |-> "visual-engineering"]
      [] c = "ultrabrain"         -> [capability |-> "ultrabrain"]
      [] c = "artistry"           -> [capability |-> "artistry", variant |-> "max"]
      [] c = "quick"              -> [capability |-> "quick"]
      [] c = "unspecified-low"    -> [capability |-> "unspecified-low"]
      [] c = "unspecified-high"   -> [capability |-> "unspecified-high"]
      [] c = "writing"            -> [capability |-> "writing"] ]

ULTIMATE_FALLBACK == "opencode/glm-4.7-free"

SCHEMA_URL ==
  "https://raw.githubusercontent.com/code-yeongyu/oh-my-opencode/master/assets/oh-my-opencode.schema.json"

toProviderAvailability(config) ==
  [ native      |-> [claude |-> config.hasClaude,
                     openai |-> config.hasOpenAI,
                     gemini |-> config.hasGemini],
    opencodeZen |-> config.hasOpencodeZen,
    copilot     |-> config.hasCopilot,
    zai         |-> config.hasZaiCodingPlan,
    isMaxPlan   |-> config.isMax20 ]

\* Indices of the chain entries whose provider is available.
AvailableEntries(chain, avail) ==
  {i \in DOMAIN chain : avail.native[chain[i].provider]}

MinOf(S) == CHOOSE x \in S : \A y \in S : x <= y
MaxOf(S) == CHOOSE x \in S : \A y \in S : x >= y

\* The tail of resolveModel, after the native chain found nothing.
resolveModel_dropsUltimate(capability_, avail) ==
  IF avail.opencodeZen THEN OPENCODE_ZEN_MODELS[capability_]
  ELSE IF avail.copilot THEN GITHUB_COPILOT_MODELS[capability_]
  ELSE IF avail.zai THEN ZAI_MODEL
  ELSE ""

resolveModel_zaiBeforeCopilot(capability_, avail) ==
  IF avail.opencodeZen THEN OPENCODE_ZEN_MODELS[capability_]
  ELSE IF avail.zai THEN ZAI_MODEL
  ELSE IF avail.copilot THEN GITHUB_COPILOT_MODELS[capability_]
  ELSE ULTIMATE_FALLBACK

resolvePooled(capability_, avail) ==
  IF avail.opencodeZen THEN OPENCODE_ZEN_MODELS[capability_]
  ELSE IF avail.copilot THEN GITHUB_COPILOT_MODELS[capability_]
  ELSE IF avail.zai THEN ZAI_MODEL
  ELSE ULTIMATE_FALLBACK

\* The chain walk returning the last available entry instead of the first.
resolveNative_lastMatch(capability_, avail) ==
  LET chain == NATIVE_FALLBACK_CHAINS[capability_]
      hits  == AvailableEntries(chain, avail)
  IN  IF hits # {} THEN chain[MaxOf(hits)].model ELSE ""

\* The for loop of resolveModel: the model of the first chain entry whose
\* provider is available, "" when the loop falls through.
resolveNative(capability_, avail) ==
  LET chain == NATIVE_FALLBACK_CHAINS[capability_]
      hits  == AvailableEntries(chain, avail)
  IN  IF hits # {} THEN chain[MinOf(hits)].model ELSE ""

resolveModel(capability_, avail) ==
  IF AvailableEntries(NATIVE_FALLBACK_CHAINS[capability_], avail) # {}
  THEN resolveNative(capability_, avail)
  ELSE resolvePooled(capability_, avail)

resolveClaudeCapability_alwaysHigh(avail) == "unspecified-high"

resolveClaudeCapability(avail) ==
  IF avail.isMaxPlan THEN "unspecified-high" ELSE "unspecified-low"

hasAnyProvider(avail) ==
  \/ avail.native.claude
  \/ avail.native.openai
  \/ avail.native.gemini
  \/ avail.opencodeZen
  \/ avail.copilot
  \/ avail.zai

\* { model } or { model, variant: req.variant }
WithVariant(req, model) ==
  IF "variant" \in DOMAIN req
  THEN [model |-> model, variant |-> req.variant]
  ELSE [model |-> model]

\* The early return of generateModelConfig when no provider is declared.
FallbackOmoConfig ==
  [ schema     |-> SCHEMA_URL,
    agents     |-> [role \in Range(AgentRoles) |-> [model |-> ULTIMATE_FALLBACK]],
    categories |-> [cat \in Range(CategoryNames) |-> [model |-> ULTIMATE_FALLBACK]] ]

\* One iteration of the loop over AGENT_REQUIREMENTS.
AgentEntry(role, avail) ==
  LET req == AGENT_REQUIREMENTS[role]
      claudeCapability == resolveClaudeCapability(avail)
  IN  IF role = "librarian" /\ avail.zai THEN [model |-> ZAI_MODEL]
      ELSE IF role = "explore" THEN
        IF avail.native.claude /\ avail.isMaxPlan
        THEN [model |-> "anthropic/claude-haiku-4-5"]
        ELSE [model |-> "opencode/grok-code"]
      ELSE
        LET cap == IF req.capability = "unspecified-high"
                   THEN claudeCapability ELSE req.capability
        IN  WithVariant(req, resolveModel(cap, avail))

\* One iteration of the loop over CATEGORY_REQUIREMENTS.
CategoryEntry(cat, avail) ==
  LET req == CATEGORY_REQUIREMENTS[cat]
      claudeCapability == resolveClaudeCapability(avail)
      cap == IF req.capability = "unspecified-high"
             THEN claudeCapability ELSE req.capability
  IN  WithVariant(req, resolveModel(cap, avail))

ResolvedOmoConfig(avail) ==
  [ schema     |-> SCHEMA_URL,
    agents     |-> [role \in Range(AgentRoles) |-> AgentEntry(role, avail)],
    categories |-> [cat \in Range(CategoryNames) |-> CategoryEntry(cat, avail)] ]

generateModelConfig_noEarlyReturn(config) ==
  ResolvedOmoConfig(toProviderAvailability(config))

generateModelConfig(config) ==
  LET avail == toProviderAvailability(config)
  IN  IF ~hasAnyProvider(avail) THEN FallbackOmoConfig
      ELSE ResolvedOmoConfig(avail)

\* The value of `generated` before generateModelConfig has run.
NoOmoConfig == [schema |-> "", agents |-> << >>, categories |-> << >>]

(***************************************************************************)
(* File contents.  A file is a sequence of lexical tokens; its bytes are   *)
(* the concatenation of the tokens.  Whitespace is one token per           *)
(* character, a string literal is one token that includes its quotes, and  *)
(* "//", "/*", "*/" and the words of a comment are tokens of their own,    *)
(* so two files have the same bytes iff they are the same sequence.        *)
(***************************************************************************)

SP == " "
NL == "\n"
Q(s) == "\"" \o s \o "\""

PACKAGE_NAME == "oh-my-opencode"

PRIORITIZED_TAGS == << "latest", "beta", "next" >>

\* The versions the installer may be running as.
Versions == {"3.0.0", "3.1.0"}

\* Every suffix a plugin entry of the model carries after "@".
Suffixes == Versions \cup {"2.9.0", "latest", "beta", "next", "canary"}

OmoEntries == {PACKAGE_NAME} \cup {PACKAGE_NAME \o "@" \o x : x \in Suffixes}

OtherPlugins == {"other-pkg", "third-pkg", "old-pkg", "oh-my-opencode-themes"}

\* The strings of a generated oh-my-opencode.json: its keys, the model ids
\* and the variants.
GeneratedStrings ==
  {"$schema", SCHEMA_URL, "agents", "categories", "model", "variant"}
    \cup Range(AgentRoles) \cup Range(CategoryNames)
    \cup UNION { {NATIVE_FALLBACK_CHAINS[c][i].model : i \in DOMAIN NATIVE_FALLBACK_CHAINS[c]}
                  \cup {OPENCODE_ZEN_MODELS[c], GITHUB_COPILOT_MODELS[c]}
                : c \in ModelCapability }
    \cup {ZAI_MODEL, ULTIMATE_FALLBACK, "anthropic/claude-haiku-4-5", "opencode/grok-code"}
    \cup {AGENT_REQUIREMENTS[r].variant :
            r \in {x \in Range(AgentRoles) : "variant" \in DOMAIN AGENT_REQUIREMENTS[x]}}
    \cup {CATEGORY_REQUIREMENTS[r].variant :
            r \in {x \in Range(CategoryNames) : "variant" \in DOMAIN CATEGORY_REQUIREMENTS[x]}}

\* The strings a user's hand-written settings or host config adds.
UserStrings ==
  {"custom", "x", "y", "my-agent", "my-category", "my/model", "prompt", "terse",
   "provider", "google", "ollama", "name", "models", "Local", "Mine", "npm"}

\* The auth plugin entries, as written and as a user may have pinned them.
AuthPluginEntries ==
  {"opencode-antigravity-auth", "opencode-antigravity-auth@1.2.7",
   "opencode-antigravity-auth@1.2.0"}

\* The strings of ANTIGRAVITY_PROVIDER_CONFIG.
ProviderStrings ==
  {"google", "name", "Google", "models", "thinking", "attachment", "limit", "context",
   "output", "modalities", "input", "text", "image", "pdf",
   "antigravity-gemini-3-pro-high", "Gemini 3 Pro High (Antigravity)",
   "antigravity-gemini-3-pro-low", "Gemini 3 Pro Low (Antigravity)",
   "antigravity-gemini-3-flash", "Gemini 3 Flash (Antigravity)"}

\* Every string that occurs as a literal in a file of the model.
StringUniverse ==
  OmoEntries \cup OtherPlugins \cup {"plugin", "theme", "dark"}
    \cup GeneratedStrings \cup UserStrings \cup AuthPluginEntries \cup ProviderStrings

\* The number literals of the model's files.
IsNum(tok) == tok \in {"0", "1", "2", "65535", "65536", "1048576"}
IsBool(tok) == tok \in {"true", "false"}

StringLiterals == {Q(s) : s \in StringUniverse}
IsStr(tok) == tok \in StringLiterals
Unq(tok) == CHOOSE s \in StringUniverse : Q(s) = tok

\* p === PACKAGE_NAME || p.startsWith(`${PACKAGE_NAME}@`)
IsOmoEntry(p) == p = PACKAGE_NAME \/ p \in {PACKAGE_NAME \o "@" \o x : x \in Suffixes}

\* Parsed values: a string, a number or a boolean (by its literal), null,
\* an array of strings, or an object (its members in `a`).
StrVal(x) == [t |-> "str", s |-> x, a |-> << >>]
NumVal(x) == [t |-> "num", s |-> x, a |-> << >>]
BoolVal(x) == [t |-> "bool", s |-> x, a |-> << >>]
ArrVal(xs) == [t |-> "arr", s |-> "", a |-> xs]
NullVal == [t |-> "null", s |-> "", a |-> << >>]
ObjVal(members) == [t |-> "obj", s |-> "", a |-> members]

\* A parsed object: its members in key order, as the JS object keeps them.
HasKey(doc, k) == \E i \in DOMAIN doc : doc[i].k = k
KeyIndex(doc, k) == CHOOSE i \in DOMAIN doc : doc[i].k = k
Get(doc, k) == doc[KeyIndex(doc, k)].v

\* obj[k] = v: an existing key keeps its position, a new key goes last.
SetKey(doc, k, v) ==
  IF HasKey(doc, k)
  THEN [doc EXCEPT ![KeyIndex(doc, k)] = [k |-> k, v |-> v]]
  ELSE Append(doc, [k |-> k, v |-> v])

(***************************************************************************)
(* parseJsonc of ../shared: JSON with comments and trailing commas; any    *)
(* parse error raises SyntaxError.  The model's grammar has objects whose  *)
(* members are strings, numbers, booleans, null, arrays of strings or      *)
(* objects.                                                                *)
(***************************************************************************)

\* The tokens of toks[from..to] that are not whitespace.
CodeTokens(toks, from, to) ==
  SelectSeq(SubSeq(toks, from, to), LAMBDA t : t \notin {SP, NL})

RECURSIVE StripComments(_, _)
\* The tokens from index i on (i outside any comment) without whitespace
\* and comments; an unterminated block comment leaves a token no grammar
\* rule accepts.
StripComments(toks, i) ==
  LET opens == {j \in i..Len(toks) : toks[j] \in {"//", "/*"}} IN
  IF opens = {} THEN CodeTokens(toks, i, Len(toks))
  ELSE
    LET open == MinOf(opens)
        closer == IF toks[open] = "//" THEN NL ELSE "*/"
        closes == {e \in (open + 1)..Len(toks) : toks[e] = closer}
    IN  CodeTokens(toks, i, open - 1)
          \o (IF closes # {} THEN StripComments(toks, MinOf(closes) + 1)
              ELSE IF closer = NL THEN << >>
              ELSE << "<unterminated comment>" >>)

ParseFail == [ok |-> FALSE, next |-> 0, arr |-> << >>, doc |-> << >>]

\* The elements of an array, from the token after "[".
RECURSIVE ParseArrayItems(_, _, _, _)
ParseArrayItems(ts, i, st, acc) ==
  IF i > Len(ts) THEN ParseFail
  ELSE IF ts[i] = "]" THEN [ok |-> TRUE, next |-> i + 1, arr |-> acc, doc |-> << >>]
  ELSE IF st \in {"start", "afterComma"} /\ IsStr(ts[i])
       THEN ParseArrayItems(ts, i + 1, "afterValue", Append(acc, Unq(ts[i])))
  ELSE IF st = "afterValue" /\ ts[i] = ","
       THEN ParseArrayItems(ts, i + 1, "afterComma", acc)
  ELSE ParseFail

\* The members of an object, from the token after "{".
RECURSIVE ParseMembers(_, _, _, _)
ParseMembers(ts, i, st, acc) ==
  IF i > Len(ts) THEN ParseFail
  ELSE IF ts[i] = "}" THEN [ok |-> TRUE, next |-> i + 1, arr |-> << >>, doc |-> acc]
  ELSE IF st = "afterMember" /\ ts[i] = ","
       THEN ParseMembers(ts, i + 1, "afterComma", acc)
  ELSE IF /\ st \in {"start", "afterComma"}
          /\ IsStr(ts[i])
          /\ i + 2 <= Len(ts)
          /\ ts[i + 1] = ":"
       THEN
         LET key == Unq(ts[i])
             v   == ts[i + 2]
         IN  IF IsStr(v)
             THEN ParseMembers(ts, i + 3, "afterMember", SetKey(acc, key, StrVal(Unq(v))))
             ELSE IF IsNum(v)
             THEN ParseMembers(ts, i + 3, "afterMember", SetKey(acc, key, NumVal(v)))
             ELSE IF IsBool(v)
             THEN ParseMembers(ts, i + 3, "afterMember", SetKey(acc, key, BoolVal(v)))
             ELSE IF v = "null"
             THEN ParseMembers(ts, i + 3, "afterMember", SetKey(acc, key, NullVal))
             ELSE IF v = "{"
             THEN CHOOSE rest \in
                    { IF r.ok
                      THEN ParseMembers(ts, r.next, "afterMember",
                                        SetKey(acc, key, ObjVal(r.doc)))
                      ELSE ParseFail : r \in {ParseMembers(ts, i + 3, "start", << >>)} } : TRUE
             ELSE IF v = "["
             THEN CHOOSE rest \in
                    { IF r.ok
                      THEN ParseMembers(ts, r.next, "afterMember",
                                        SetKey(acc, key, ArrVal(r.arr)))
                      ELSE ParseFail : r \in {ParseArrayItems(ts, i + 3, "start", << >>)} } : TRUE
             ELSE ParseFail
  ELSE ParseFail

\* kind: "object", "null", "array", "string", "number", "boolean", or "error"
\* (SyntaxError thrown).
parseJsonc(content) ==
  LET none == [kind |-> "error", doc |-> << >>] IN
  CHOOSE parsed \in {
      IF ts = << >> THEN none
      ELSE IF ts[1] = "{" THEN
        CHOOSE value \in
          { IF r.ok /\ r.next = Len(ts) + 1
            THEN [kind |-> "object", doc |-> r.doc] ELSE none
            : r \in {ParseMembers(ts, 2, "start", << >>)} } : TRUE
      ELSE IF ts[1] = "[" THEN
        CHOOSE value \in
          { IF r.ok /\ r.next = Len(ts) + 1
            THEN [kind |-> "array", doc |-> << >>] ELSE none
            : r \in {ParseArrayItems(ts, 2, "start", << >>)} } : TRUE
      ELSE IF ts = << "null" >> THEN [kind |-> "null", doc |-> << >>]
      ELSE IF Len(ts) = 1 /\ IsStr(ts[1]) THEN [kind |-> "string", doc |-> << >>]
      ELSE IF Len(ts) = 1 /\ IsNum(ts[1]) THEN [kind |-> "number", doc |-> << >>]
      ELSE IF Len(ts) = 1 /\ IsBool(ts[1]) THEN [kind |-> "boolean", doc |-> << >>]
      ELSE none
    : ts \in {StripComments(content, 1)} } : TRUE

(***************************************************************************)
(* JSON.stringify(value, null, 2) + "\n"                                   *)
(***************************************************************************)

Indent(n) == [i \in 1..n |-> SP]

RECURSIVE JoinItems(_, _, _)
\* items[i..] as quoted literals, each after `lead`, separated by ","
JoinItems(items, i, lead) ==
  IF i > Len(items) THEN << >>
  ELSE lead \o << Q(items[i]) >>
       \o (IF i < Len(items) THEN << "," >> ELSE << >>)
       \o JoinItems(items, i + 1, lead)

RECURSIVE StringifyValue(_, _)
RECURSIVE StringifyMembers(_, _, _)

\* v as it is printed at nesting depth `depth` (two spaces a level).
StringifyValue(v, depth) ==
  CASE v.t = "str"  -> << Q(v.s) >>
    [] v.t = "num"  -> << v.s >>
    [] v.t = "bool" -> << v.s >>
    [] v.t = "null" -> << "null" >>
    [] v.t = "arr"  ->
         IF v.a = << >> THEN << "[", "]" >>
         ELSE << "[" >> \o JoinItems(v.a, 1, << NL >> \o Indent(2 * (depth + 1)))
              \o << NL >> \o Indent(2 * depth) \o << "]" >>
    [] v.t = "obj"  ->
         IF v.a = << >> THEN << "{", "}" >>
         ELSE << "{" >> \o StringifyMembers(v.a, 1, depth + 1)
              \o << NL >> \o Indent(2 * depth) \o << "}" >>

StringifyMembers(doc, i, depth) ==
  IF i > Len(doc) THEN << >>
  ELSE << NL >> \o Indent(2 * depth) \o << Q(doc[i].k), ":", SP >>
       \o StringifyValue(doc[i].v, depth)
       \o (IF i < Len(doc) THEN << "," >> ELSE << >>)
       \o StringifyMembers(doc, i + 1, depth)

Stringify(doc) == StringifyValue(ObjVal(doc), 0) \o << NL >>

(***************************************************************************)
(* config-manager.ts: the config directory and the plugin registry editor  *)
(***************************************************************************)

\* OPENCODE_BINARIES, in the order findOpenCodeBinaryWithVersion tries them.
OPENCODE_BINARIES == << "opencode", "opencode-desktop" >>

\* version: string | null
NullVersion == "<null>"

\* let configContext: ConfigContext | null = null.  The field paths is
\* getOpenCodeConfigPaths({ binary, version }), a function of the other two.
NoContext == [isNull |-> TRUE, binary |-> "", version |-> NullVersion]

initConfigContext(binary, version) ==
  [isNull |-> FALSE, binary |-> binary, version |-> version]

\* The context getConfigContext() returns; it is also what the call leaves
\* in configContext.
getConfigContext(ctx) ==
  IF ctx.isNull THEN initConfigContext("opencode", NullVersion) ELSE ctx

configJsonc == "opencode.jsonc"
configJson == "opencode.json"
configDir == "<configDir>"

NoFile == [exists |-> FALSE, content |-> << >>]
File(content) == [exists |-> TRUE, content |-> content]

\* dir: the config directory exists; files: the two host config files.
EmptyDir == [dir |-> FALSE, files |-> [p \in {configJsonc, configJson} |-> NoFile]]

\* fetchNpmDistTags: null (failure, timeout, non-200) or the dist-tags
\* object, its keys in the order the registry sent them.
NoDistTags == [ok |-> FALSE, tags |-> << >>]
DistTags(tags) == [ok |-> TRUE, tags |-> tags]

\* distTags[tag], "" for undefined
TagVersion(distTags, tag) ==
  IF \E i \in DOMAIN distTags.tags : distTags.tags[i].tag = tag
  THEN distTags.tags[CHOOSE i \in DOMAIN distTags.tags : distTags.tags[i].tag = tag].version
  ELSE ""

\* new Set([...PRIORITIZED_TAGS, ...Object.keys(distTags)]), in iteration order
AllTags(distTags) ==
  PRIORITIZED_TAGS
    \o SelectSeq([i \in DOMAIN distTags.tags |-> distTags.tags[i].tag],
                 LAMBDA t : t \notin Range(PRIORITIZED_TAGS))

\* The tag loop walking Object.keys(distTags) alone, without the priority list.
getPluginNameWithVersion_registryOrder(currentVersion, distTags) ==
  LET hits == {i \in DOMAIN distTags.tags : distTags.tags[i].version = currentVersion}
  IN  IF distTags.ok /\ hits # {}
      THEN PACKAGE_NAME \o "@" \o distTags.tags[MinOf(hits)].tag
      ELSE PACKAGE_NAME \o "@" \o currentVersion

getPluginNameWithVersion(currentVersion, distTags) ==
  LET allTags == AllTags(distTags)
      hits == {i \in DOMAIN allTags : TagVersion(distTags, allTags[i]) = currentVersion}
  IN  IF distTags.ok /\ hits # {}
      THEN PACKAGE_NAME \o "@" \o allTags[MinOf(hits)]
      ELSE PACKAGE_NAME \o "@" \o currentVersion

\* The detector testing the plain file before the commented one.
detectConfigFormat_plainFirst(fs_) ==
  IF fs_.files[configJson].exists THEN [format |-> "json", path |-> configJson]
  ELSE IF fs_.files[configJsonc].exists THEN [format |-> "jsonc", path |-> configJsonc]
  ELSE [format |-> "none", path |-> configJson]

detectConfigFormat(fs_) ==
  IF fs_.files[configJsonc].exists THEN [format |-> "jsonc", path |-> configJsonc]
  ELSE IF fs_.files[configJson].exists THEN [format |-> "json", path |-> configJson]
  ELSE [format |-> "none", path |-> configJson]

isEmptyOrWhitespace(content) == \A i \in DOMAIN content : content[i] \in {SP, NL}

\* The causes an I/O call fails with: err.code, or what err.message names.
IOErrors == {"EACCES", "EPERM", "ENOENT", "ENOSPC", "EROFS", "EIO"}

\* The diagnosis for an error: err is an I/O cause or "SyntaxError".
formatErrorWithSuggestion(err, context) ==
  CASE err \in {"EACCES", "EPERM"} -> "Permission denied"
    [] err = "ENOENT"              -> "File not found"
    [] err = "SyntaxError"         -> "JSON syntax error"
    [] err = "ENOSPC"              -> "Disk full"
    [] err = "EROFS"               -> "Read-only filesystem"
    [] OTHER                       -> "Failed to " \o context

\* The function without its typeof / Array.isArray test.
parseConfigWithError_noShapeCheck(file, io) ==
  LET fail(e) == [ok |-> FALSE, config |-> << >>, error |-> e] IN
  IF io # "ok" THEN fail(formatErrorWithSuggestion(io, "parse config file"))
  ELSE IF Len(file.content) = 0 THEN fail("Config file is empty")
  ELSE IF isEmptyOrWhitespace(file.content)
  THEN fail("Config file contains only whitespace")
  ELSE
    CHOOSE result \in {
      CASE r.kind = "error"  -> fail(formatErrorWithSuggestion("SyntaxError", "parse config file"))
        [] r.kind = "null"   -> fail("Config file parsed to null/undefined")
        [] OTHER             -> [ok |-> TRUE, config |-> r.doc, error |-> ""]
      : r \in {parseJsonc(file.content)} } : TRUE

\* ok: a config was returned; error: which diagnosis was returned.  io is
\* "ok" or the cause statSync / readFileSync fails with.
parseConfigWithError(file, io) ==
  LET fail(e) == [ok |-> FALSE, config |-> << >>, error |-> e] IN
  IF io # "ok" THEN fail(formatErrorWithSuggestion(io, "parse config file"))
  ELSE IF Len(file.content) = 0 THEN fail("Config file is empty")
  ELSE IF isEmptyOrWhitespace(file.content)
  THEN fail("Config file contains only whitespace")
  ELSE
    CHOOSE result \in {
      CASE r.kind = "error"  -> fail(formatErrorWithSuggestion("SyntaxError", "parse config file"))
        [] r.kind = "null"   -> fail("Config file parsed to null/undefined")
        [] r.kind = "array"  -> fail("Config file must contain a JSON object, not an array")
        [] r.kind = "string" -> fail("Config file must contain a JSON object, not string")
        [] r.kind = "number" -> fail("Config file must contain a JSON object, not number")
        [] r.kind = "boolean" -> fail("Config file must contain a JSON object, not boolean")
        [] OTHER             -> [ok |-> TRUE, config |-> r.doc, error |-> ""]
      : r \in {parseJsonc(file.content)} } : TRUE

\* config.plugin ?? []
PluginsOf(config) ==
  IF HasKey(config, "plugin") /\ Get(config, "plugin").t = "arr"
  THEN Get(config, "plugin").a
  ELSE << >>

\* plugins.findIndex(...), 0 for -1
ExistingIndex(plugins) ==
  LET hits == {i \in DOMAIN plugins : IsOmoEntry(plugins[i])}
  IN  IF hits = {} THEN 0 ELSE MinOf(hits)

\* The list after `plugins[existingIndex] = pluginEntry` or `plugins.push`.
UpdatePlugins(plugins, pluginEntry) ==
  IF ExistingIndex(plugins) # 0
  THEN [plugins EXCEPT ![ExistingIndex(plugins)] = pluginEntry]
  ELSE Append(plugins, pluginEntry)

\* The first index at or after i that holds no whitespace (Len + 1 if none).
RECURSIVE SkipWs(_, _)
SkipWs(content, i) ==
  IF i <= Len(content) /\ content[i] \in {SP, NL} THEN SkipWs(content, i + 1) ELSE i

\* /"plugin"\s*:\s*\[([\s\S]*?)\]/ matched at index i: the index of the
\* closing "]", 0 when there is no match at i.
PluginArrayMatchEnd(content, i) ==
  IF content[i] # Q("plugin") THEN 0
  ELSE
    LET j == SkipWs(content, i + 1) IN
    IF j > Len(content) \/ content[j] # ":" THEN 0
    ELSE
      LET k == SkipWs(content, j + 1) IN
      IF k > Len(content) \/ content[k] # "[" THEN 0
      ELSE
        LET ends == {e \in (k + 1)..Len(content) : content[e] = "]"}
        IN  IF ends = {} THEN 0 ELSE MinOf(ends)

\* content.match(pluginArrayRegex): the leftmost match, from 0 when none.
PluginArrayMatch(content) ==
  LET starts == {i \in DOMAIN content : PluginArrayMatchEnd(content, i) # 0}
  IN  IF starts = {} THEN [from |-> 0, to |-> 0]
      ELSE [from |-> MinOf(starts), to |-> PluginArrayMatchEnd(content, MinOf(starts))]

\* The jsonc branch: the text written back to the file.
PatchJsonc(content, plugins, pluginEntry) ==
  LET m == PluginArrayMatch(content) IN
  IF m.from # 0
  THEN SubSeq(content, 1, m.from - 1)
       \o << Q("plugin"), ":", SP, "[" >>
       \o JoinItems(plugins, 1, << NL >> \o Indent(4))
       \o << NL >> \o Indent(2) \o << "]" >>
       \o SubSeq(content, m.to + 1, Len(content))
  ELSE
    \* content.replace(/^(\s*\{)/, `$1\n  "plugin": ["${pluginEntry}"],`)
    LET b == SkipWs(content, 1) IN
    IF b <= Len(content) /\ content[b] = "{"
    THEN SubSeq(content, 1, b)
         \o << NL, SP, SP, Q("plugin"), ":", SP, "[", Q(pluginEntry), "]", "," >>
         \o SubSeq(content, b + 1, Len(content))
    ELSE content

Success(path) == [success |-> TRUE, configPath |-> path, error |-> ""]
Failure(path, error) == [success |-> FALSE, configPath |-> path, error |-> error]
NoResult == [success |-> FALSE, configPath |-> "", error |-> "<not called>"]

\* The values of `input` and `output` where nothing is under check.
NoInput == [op |-> "none"]
NoOutput == [op |-> "none"]

\* The value of `lastCall` before any call.
NoCall ==
  [ version |-> "", distTags |-> NoDistTags, io |-> "ok", pluginEntry |-> "",
    wrote |-> 0, success |-> FALSE, repeat |-> FALSE, allSucceeded |-> TRUE ]

\* writeFileSync(path, content): io is "ok", or the cause it throws for
\* ("fail" for a cause with no class of its own).
WriteFile(fs_, path, content, io, context) ==
  IF io # "ok"
  THEN [fs |-> fs_, result |-> Failure(path, formatErrorWithSuggestion(io, context)),
        wrote |-> 0]
  ELSE [fs |-> [fs_ EXCEPT !.files[path] = File(content)],
        result |-> Success(path), wrote |-> 1]

\* The call treating an unparseable config as {} and writing over it.
addPluginToOpenCodeConfig_overwritesUnparseable(fs_, pluginEntry, io) ==
  LET fs1 == [fs_ EXCEPT !.dir = TRUE]
      det == detectConfigFormat(fs1)
      parseResult == parseConfigWithError(fs1.files[det.path], "ok")
      config == IF det.format # "none" /\ parseResult.ok THEN parseResult.config ELSE << >>
      plugins == PluginsOf(config)
  IN  IF ExistingIndex(plugins) # 0 /\ plugins[ExistingIndex(plugins)] = pluginEntry
      THEN [fs |-> fs1, result |-> Success(det.path), wrote |-> 0]
      ELSE WriteFile(fs1, det.path,
                     Stringify(SetKey(config, "plugin",
                                      ArrVal(UpdatePlugins(plugins, pluginEntry)))),
                     io, "update opencode config")

\* The call's outcome: the directory afterwards, the ConfigMergeResult and
\* the number of writeFileSync calls that went through.
addPluginToOpenCodeConfig(fs_, pluginEntry, io) ==
  IF ~fs_.dir /\ io # "ok"
  THEN [fs |-> fs_,
        result |-> Failure(configDir,
                           formatErrorWithSuggestion(io, "create config directory")),
        wrote |-> 0]
  ELSE
    LET fs1 == [fs_ EXCEPT !.dir = TRUE]
        det == detectConfigFormat(fs1)
    IN
    IF det.format = "none"
    THEN WriteFile(fs1, det.path,
                   Stringify(<< [k |-> "plugin", v |-> ArrVal(<< pluginEntry >>)] >>),
                   io, "update opencode config")
    ELSE
      CHOOSE outcome \in {
      IF ~parseResult.ok
      THEN [fs |-> fs1, result |-> Failure(det.path, parseResult.error), wrote |-> 0]
      ELSE
        LET config == parseResult.config
            plugins == PluginsOf(config)
            existingIndex == ExistingIndex(plugins)
        IN
        IF HasKey(config, "plugin") /\ Get(config, "plugin").t = "str"
        THEN \* plugins.findIndex is not a function: caught by the outer try
             [fs |-> fs1,
              result |-> Failure(det.path, "Failed to update opencode config"),
              wrote |-> 0]
        ELSE IF existingIndex # 0 /\ plugins[existingIndex] = pluginEntry
        THEN [fs |-> fs1, result |-> Success(det.path), wrote |-> 0]
        ELSE
          LET newPlugins == UpdatePlugins(plugins, pluginEntry) IN
          IF det.format = "jsonc"
          THEN WriteFile(fs1, det.path,
                         PatchJsonc(fs1.files[det.path].content, newPlugins, pluginEntry),
                         io, "update opencode config")
          ELSE WriteFile(fs1, det.path,
                         Stringify(SetKey(config, "plugin", ArrVal(newPlugins))),
                         io, "update opencode config")
      : parseResult \in {parseConfigWithError(fs1.files[det.path], "ok")} } : TRUE

\* The values of the variables a specification does not use.
ModelIdle ==
  /\ installConfig = [hasClaude |-> FALSE, isMax20 |-> FALSE, hasOpenAI |-> FALSE,
                      hasGemini |-> FALSE, hasCopilot |-> FALSE,
                      hasOpencodeZen |-> FALSE, hasZaiCodingPlan |-> FALSE]
  /\ capability = "glm"
  /\ resolved = ""
  /\ generated = NoOmoConfig
  /\ pc = "start"

PluginIdle ==
  /\ fs = EmptyDir
  /\ lastResult = NoResult
  /\ calls = 0
  /\ lastCall = NoCall
  /\ before = EmptyDir

\* p.startsWith("opencode-antigravity-auth")
IsAuthPlugin(p) == p \in AuthPluginEntries

\* fetchLatestVersion("opencode-antigravity-auth"): "" for null.
AuthVersions == {"", "1.2.7"}

\* existingConfig as addAuthPlugins and addProviderConfig take it: {} when
\* there is no file or parseConfigWithError reports an error.
ExistingOrEmpty(fs_) ==
  LET det == detectConfigFormat(fs_) IN
  IF det.format = "none" THEN << >>
  ELSE CHOOSE existingConfig \in
         { IF parseResult.ok THEN parseResult.config ELSE << >>
           : parseResult \in {parseConfigWithError(fs_.files[det.path], "ok")} } : TRUE

\* The editor writing { plugin: plugins } alone, the spread of the
\* existing config left out.
addAuthPlugins_dropsOtherKeys(fs_, config, version, io) ==
  LET fs1 == [fs_ EXCEPT !.dir = TRUE]
      plugins == PluginsOf(ExistingOrEmpty(fs1))
  IN  WriteFile(fs1, detectConfigFormat(fs1).path,
                Stringify(<< [k |-> "plugin", v |-> ArrVal(plugins)] >>),
                io, "add auth plugins to config")

addAuthPlugins(fs_, config, version, io) ==
  IF ~fs_.dir /\ io # "ok"
  THEN [fs |-> fs_,
        result |-> Failure(configDir,
                           formatErrorWithSuggestion(io, "create config directory")),
        wrote |-> 0]
  ELSE
    CHOOSE outcome \in {
    LET fs1 == [fs_ EXCEPT !.dir = TRUE]
        path == detectConfigFormat(fs1).path
        \* existingConfig?.plugin ?? []
        held == IF HasKey(existingConfig, "plugin") /\ Get(existingConfig, "plugin").t # "null"
                THEN Get(existingConfig, "plugin")
                ELSE ArrVal(<< >>)
        pluginEntry == IF version # "" THEN "opencode-antigravity-auth@" \o version
                       ELSE "opencode-antigravity-auth"
    IN
    IF config.hasGemini /\ held.t # "arr"
    THEN \* plugins.some is not a function: caught by the outer try
         [fs |-> fs1,
          result |-> Failure(path, formatErrorWithSuggestion("TypeError",
                                                            "add auth plugins to config")),
          wrote |-> 0]
    ELSE
      LET plugins ==
            IF config.hasGemini /\ ~\E i \in DOMAIN held.a : IsAuthPlugin(held.a[i])
            THEN ArrVal(Append(held.a, pluginEntry))
            ELSE held
      IN  WriteFile(fs1, path, Stringify(SetKey(existingConfig, "plugin", plugins)),
                    io, "add auth plugins to config")
    : existingConfig \in {ExistingOrEmpty([fs_ EXCEPT !.dir = TRUE])} } : TRUE

\* One model of ANTIGRAVITY_PROVIDER_CONFIG.google.models.
AntigravityModel(name, thinking, outputLimit) ==
  ObjVal(<< [k |-> "name", v |-> StrVal(name)] >>
         \o (IF thinking THEN << [k |-> "thinking", v |-> BoolVal("true")] >> ELSE << >>)
         \o << [k |-> "attachment", v |-> BoolVal("true")],
               [k |-> "limit",
                v |-> ObjVal(<< [k |-> "context", v |-> NumVal("1048576")],
                                [k |-> "output", v |-> NumVal(outputLimit)] >>)],
               [k |-> "modalities",
                v |-> ObjVal(<< [k |-> "input", v |-> ArrVal(<< "text", "image", "pdf" >>)],
                                [k |-> "output", v |-> ArrVal(<< "text" >>)] >>)] >>)

\* ANTIGRAVITY_PROVIDER_CONFIG.google
ANTIGRAVITY_PROVIDER_CONFIG ==
  ObjVal(<< [k |-> "name", v |-> StrVal("Google")],
            [k |-> "models",
             v |-> ObjVal(<<
               [k |-> "antigravity-gemini-3-pro-high",
                v |-> AntigravityModel("Gemini 3 Pro High (Antigravity)", TRUE, "65535")],
               [k |-> "antigravity-gemini-3-pro-low",
                v |-> AntigravityModel("Gemini 3 Pro Low (Antigravity)", TRUE, "65535")],
               [k |-> "antigravity-gemini-3-flash",
                v |-> AntigravityModel("Gemini 3 Flash (Antigravity)", FALSE, "65536")] >>)] >>)

\* The editor building the provider map from scratch.
addProviderConfig_replacesProviders(fs_, config, io) ==
  LET fs1 == [fs_ EXCEPT !.dir = TRUE]
      existingConfig == ExistingOrEmpty(fs1)
  IN  WriteFile(fs1, detectConfigFormat(fs1).path,
                Stringify(IF config.hasGemini
                          THEN SetKey(existingConfig, "provider",
                                      ObjVal(<< [k |-> "google",
                                                 v |-> ANTIGRAVITY_PROVIDER_CONFIG] >>))
                          ELSE existingConfig),
                io, "add provider config")

addProviderConfig(fs_, config, io) ==
  IF ~fs_.dir /\ io # "ok"
  THEN [fs |-> fs_,
        result |-> Failure(configDir,
                           formatErrorWithSuggestion(io, "create config directory")),
        wrote |-> 0]
  ELSE
    CHOOSE outcome \in {
    LET fs1 == [fs_ EXCEPT !.dir = TRUE]
        path == detectConfigFormat(fs1).path
        \* newConfig.provider ?? {}
        held == IF HasKey(newConfig, "provider") /\ Get(newConfig, "provider").t # "null"
                THEN Get(newConfig, "provider")
                ELSE ObjVal(<< >>)
    IN
    IF config.hasGemini /\ held.t \in {"str", "num", "bool"}
    THEN \* strict mode: a property cannot be created on a primitive
         [fs |-> fs1,
          result |-> Failure(path, formatErrorWithSuggestion("TypeError",
                                                            "add provider config")),
          wrote |-> 0]
    ELSE
      LET providers ==
            IF config.hasGemini /\ held.t = "obj"
            THEN ObjVal(SetKey(held.a, "google", ANTIGRAVITY_PROVIDER_CONFIG))
            ELSE held  \* a property set on an array is not serialised
          \* Object.keys(providers).length > 0
          hasKeys == CASE providers.t \in {"obj", "arr"} -> providers.a # << >>
                       [] providers.t = "str" -> providers.s # ""
                       [] OTHER -> FALSE
      IN  WriteFile(fs1, path,
                    Stringify(IF hasKeys THEN SetKey(newConfig, "provider", providers)
                              ELSE newConfig),
                    io, "add provider config")
    : newConfig \in {ExistingOrEmpty([fs_ EXCEPT !.dir = TRUE])} } : TRUE

(***************************************************************************)
(* config-manager.ts: deepMerge and the settings file writer               *)
(***************************************************************************)

\* non-null, typeof "object", not an array
IsPlainObject(v) == v.t = "obj"

\* Object.assign semantics: every source value replaces, nothing recurses.
deepMerge_shallow(target, source) ==
  [i \in 1..Len(source) |-> source[i]]
    \o SelectSeq(target, LAMBDA m : ~HasKey(source, m.k))

\* The result built from source alone, the copy of target forgotten.
deepMerge_sourceOnly(target, source) == source

RECURSIVE deepMerge(_, _)
RECURSIVE MergeFrom(_, _, _)

\* The loop over Object.keys(source) from its i-th key on, result being
\* `{ ...target }` as the earlier iterations left it.
MergeFrom(result, source, i) ==
  IF i > Len(source) THEN result
  ELSE
    LET key == source[i].k
        sourceValue == source[i].v
    IN  IF /\ IsPlainObject(sourceValue)
           /\ HasKey(result, key)
           /\ IsPlainObject(Get(result, key))
        THEN MergeFrom(SetKey(result, key,
                              ObjVal(deepMerge(Get(result, key).a, sourceValue.a))),
                       source, i + 1)
        ELSE MergeFrom(SetKey(result, key, sourceValue), source, i + 1)

deepMerge(target, source) == MergeFrom(target, source, 1)

omoConfig == "oh-my-opencode.json"

\* An agent or category entry as an object: model, then variant if any.
EntryDoc(entry) ==
  << [k |-> "model", v |-> StrVal(entry.model)] >>
    \o (IF "variant" \in DOMAIN entry
        THEN << [k |-> "variant", v |-> StrVal(entry.variant)] >>
        ELSE << >>)

\* generateOmoConfig(installConfig) as a document: $schema, agents and
\* categories, the entries in the declaration order of the requirements.
generateOmoConfig(config) ==
  LET g == generateModelConfig(config) IN
  << [k |-> "$schema", v |-> StrVal(g.schema)],
     [k |-> "agents",
      v |-> ObjVal([i \in DOMAIN AgentRoles |->
                      [k |-> AgentRoles[i], v |-> ObjVal(EntryDoc(g.agents[AgentRoles[i]]))]])],
     [k |-> "categories",
      v |-> ObjVal([i \in DOMAIN CategoryNames |->
                      [k |-> CategoryNames[i],
                       v |-> ObjVal(EntryDoc(g.categories[CategoryNames[i]]))]])] >>

\* writeFileSync(omoConfigPath, content): io is "ok" or the cause it fails with.
WriteOmo(fs_, omo_, content, io) ==
  IF io # "ok"
  THEN [fs |-> fs_, omo |-> omo_,
        result |-> Failure(omoConfig,
                           formatErrorWithSuggestion(io, "write oh-my-opencode config"))]
  ELSE [fs |-> fs_, omo |-> File(content), result |-> Success(omoConfig)]

\* The writer replacing whatever the file holds by the generated document.
writeOmoConfig_overwrites(fs_, omo_, config, io) ==
  IF ~fs_.dir /\ io # "ok"
  THEN [fs |-> fs_, omo |-> omo_,
        result |-> Failure(configDir, formatErrorWithSuggestion(io, "create config directory"))]
  ELSE WriteOmo([fs_ EXCEPT !.dir = TRUE], omo_, Stringify(generateOmoConfig(config)), io)

\* The writer reporting a file it cannot parse instead of starting afresh.
writeOmoConfig_abortsOnSyntaxError(fs_, omo_, config, io) ==
  LET fs1 == [fs_ EXCEPT !.dir = TRUE]
      existing == parseJsonc(omo_.content)
  IN  IF omo_.exists /\ ~isEmptyOrWhitespace(omo_.content) /\ existing.kind = "error"
      THEN [fs |-> fs1, omo |-> omo_,
            result |-> Failure(omoConfig,
                               formatErrorWithSuggestion("SyntaxError",
                                                         "write oh-my-opencode config"))]
      ELSE IF omo_.exists /\ existing.kind = "object"
      THEN WriteOmo(fs1, omo_, Stringify(deepMerge(existing.doc, generateOmoConfig(config))), io)
      ELSE WriteOmo(fs1, omo_, Stringify(generateOmoConfig(config)), io)

\* The call's outcome: the directory and the settings file afterwards and
\* the ConfigMergeResult.
writeOmoConfig(fs_, omo_, config, io) ==
  IF ~fs_.dir /\ io # "ok"
  THEN [fs |-> fs_, omo |-> omo_,
        result |-> Failure(configDir, formatErrorWithSuggestion(io, "create config directory"))]
  ELSE
    LET fs1 == [fs_ EXCEPT !.dir = TRUE]
        newConfig == generateOmoConfig(config)
    IN
    IF ~omo_.exists THEN WriteOmo(fs1, omo_, Stringify(newConfig), io)
    ELSE IF Len(omo_.content) = 0 \/ isEmptyOrWhitespace(omo_.content)
    THEN WriteOmo(fs1, omo_, Stringify(newConfig), io)
    ELSE
      CHOOSE outcome \in {
      IF existing.kind # "object"
      THEN \* SyntaxError caught, or a falsy / non-object / array value
           WriteOmo(fs1, omo_, Stringify(newConfig), io)
      ELSE WriteOmo(fs1, omo_, Stringify(deepMerge(existing.doc, newConfig)), io)
      : existing \in {parseJsonc(omo_.content)} } : TRUE

(***************************************************************************)
(* config-manager.ts: detection of what an earlier install left            *)
(***************************************************************************)

\* The strings of the model's files that start with each of the prefixes
\* the code tests with startsWith / includes.
StringsWithPrefix ==
  [ prefix \in {"anthropic/", "openai/", "google/", "opencode/", "github-copilot/",
                "zai-coding-plan/", "oh-my-opencode", "opencode-antigravity-auth"} |->
      CASE prefix = "anthropic/" ->
             {"anthropic/claude-opus-4-5", "anthropic/claude-sonnet-4-5",
              "anthropic/claude-haiku-4-5"}
        [] prefix = "openai/" ->
             {"openai/gpt-5.2", "openai/gpt-5.1-codex-mini", "openai/gpt-5.2-codex"}
        [] prefix = "google/" ->
             {"google/gemini-3-pro-preview", "google/gemini-3-flash-preview"}
        [] prefix = "opencode/" ->
             {"opencode/claude-opus-4-5", "opencode/claude-sonnet-4-5",
              "opencode/claude-haiku-4-5", "opencode/gpt-5.2-codex", "opencode/gemini-3-pro",
              "opencode/gemini-3-flash", "opencode/glm-4.7-free", "opencode/grok-code"}
        [] prefix = "github-copilot/" ->
             {"github-copilot/claude-opus-4.5", "github-copilot/claude-sonnet-4.5",
              "github-copilot/claude-haiku-4.5", "github-copilot/gpt-5.2-codex",
              "github-copilot/gemini-3-pro-preview", "github-copilot/gemini-3-flash-preview",
              "github-copilot/gpt-5.2"}
        [] prefix = "zai-coding-plan/" -> {"zai-coding-plan/glm-4.7"}
        [] prefix = "oh-my-opencode" -> OmoEntries \cup {"oh-my-opencode-themes"}
        [] prefix = "opencode-antigravity-auth" -> AuthPluginEntries ]

\* s.startsWith(prefix)
StartsWith(s, prefix) == s \in StringsWithPrefix[prefix]

\* JSON.stringify(value).includes('"' + prefix): every key and every string
\* value is printed as a quoted literal, so the test asks whether some
\* string literal of the document starts with prefix.  toks is the file
\* with its comments stripped.
IncludesQuoted(toks, prefix) ==
  \E i \in DOMAIN toks : IsStr(toks[i]) /\ StartsWith(Unq(toks[i]), prefix)

\* The answer of detectProvidersFromOmoConfig when it cannot read the file.
AssumedProviders == [hasOpenAI |-> TRUE, hasOpencodeZen |-> TRUE, hasZaiCodingPlan |-> FALSE]

detectProvidersFromOmoConfig(omo_) ==
  IF ~omo_.exists THEN AssumedProviders
  ELSE
    CHOOSE detected \in {
      IF omoConfig_.kind \notin {"object", "array"}
      THEN \* SyntaxError caught, a falsy value, or typeof !== "object"
           AssumedProviders
      ELSE CHOOSE d \in {
             [hasOpenAI        |-> IncludesQuoted(toks, "openai/"),
              hasOpencodeZen   |-> IncludesQuoted(toks, "opencode/"),
              hasZaiCodingPlan |-> IncludesQuoted(toks, "zai-coding-plan/")]
             : toks \in {StripComments(omo_.content, 1)} } : TRUE
      : omoConfig_ \in {parseJsonc(omo_.content)} } : TRUE

\* The DetectedConfig detectCurrentConfig starts from.
NotDetected ==
  [isInstalled |-> FALSE, hasClaude |-> TRUE, isMax20 |-> TRUE, hasOpenAI |-> TRUE,
   hasGemini |-> FALSE, hasCopilot |-> FALSE, hasOpencodeZen |-> TRUE,
   hasZaiCodingPlan |-> FALSE, threw |-> FALSE]

\* detectCurrentConfig(): the DetectedConfig, and threw when the call ends
\* in a TypeError instead (plugins.some on a value that is not an array).
detectCurrentConfig(fs_, omo_) ==
  LET det == detectConfigFormat(fs_) IN
  IF det.format = "none" THEN NotDetected
  ELSE
    CHOOSE result \in {
      IF ~parseResult.ok THEN NotDetected
      ELSE
        LET openCodeConfig == parseResult.config
            plugins == PluginsOf(openCodeConfig)
            isInstalled == \E i \in DOMAIN plugins : StartsWith(plugins[i], "oh-my-opencode")
        IN
        IF /\ HasKey(openCodeConfig, "plugin")
           /\ Get(openCodeConfig, "plugin").t \notin {"arr", "null"}
        THEN [NotDetected EXCEPT !.threw = TRUE]
        ELSE IF ~isInstalled THEN NotDetected
        ELSE
          CHOOSE r \in {
            [NotDetected EXCEPT
               !.isInstalled = TRUE,
               !.hasGemini = \E i \in DOMAIN plugins :
                               StartsWith(plugins[i], "opencode-antigravity-auth"),
               !.hasOpenAI = providers.hasOpenAI,
               !.hasOpencodeZen = providers.hasOpencodeZen,
               !.hasZaiCodingPlan = providers.hasZaiCodingPlan]
            : providers \in {detectProvidersFromOmoConfig(omo_)} } : TRUE
      : parseResult \in {parseConfigWithError(fs_.files[det.path], "ok")} } : TRUE

\* findOpenCodeBinaryWithVersion(): the first binary of OPENCODE_BINARIES
\* whose `--version` exits with 0; answering is the set of binaries that do,
\* version what they print.  found = FALSE stands for null.
findOpenCodeBinaryWithVersion(ctx, answering, version) ==
  LET hits == {i \in DOMAIN OPENCODE_BINARIES : OPENCODE_BINARIES[i] \in answering} IN
  IF hits = {}
  THEN [found |-> FALSE, binary |-> "", version |-> NullVersion, context |-> ctx]
  ELSE [found |-> TRUE, binary |-> OPENCODE_BINARIES[MinOf(hits)], version |-> version,
        context |-> initConfigContext(OPENCODE_BINARIES[MinOf(hits)], version)]

(***************************************************************************)
(* install.ts: the install run                                             *)
(***************************************************************************)

\* The outcome of a run: the files afterwards, the exit code returned, the
\* steps entered in order, and the number of host config writes that went
\* through.
RunOutcome(fs_, omo_, exit, ran, hostWrote) ==
  [fs |-> fs_, omo |-> omo_, exit |-> exit, ran |-> ran, hostWrote |-> hostWrote]

\* runNonTuiInstall(args) from the OpenCode check on, and install(args)
\* from the same point in TUI mode: the same calls in the same order, every
\* failure answered by `return 1`.  ios gives the I/O outcome of each step.
runNonTuiInstall(fs_, omo_, config, installed, currentVersion, distTags, authVersion, ios) ==
  IF ~installed THEN RunOutcome(fs_, omo_, 1, << >>, 0)
  ELSE
    CHOOSE outcome \in {
      IF ~pluginResult.result.success
      THEN RunOutcome(pluginResult.fs, omo_, 1, << "plugin" >>, 0)
      ELSE IF ~config.hasGemini
      THEN CHOOSE o \in {
             RunOutcome(omoResult.fs, omoResult.omo,
                        IF omoResult.result.success THEN 0 ELSE 1,
                        << "plugin", "omo" >>, pluginResult.wrote)
             : omoResult \in {writeOmoConfig(pluginResult.fs, omo_, config, ios.omo)} } : TRUE
      ELSE CHOOSE o \in {
             IF ~authResult.result.success
             THEN RunOutcome(authResult.fs, omo_, 1, << "plugin", "auth" >>,
                             pluginResult.wrote)
             ELSE CHOOSE o2 \in {
                    IF ~providerResult.result.success
                    THEN RunOutcome(providerResult.fs, omo_, 1,
                                    << "plugin", "auth", "provider" >>,
                                    pluginResult.wrote + authResult.wrote)
                    ELSE CHOOSE o3 \in {
                           RunOutcome(omoResult.fs, omoResult.omo,
                                      IF omoResult.result.success THEN 0 ELSE 1,
                                      << "plugin", "auth", "provider", "omo" >>,
                                      pluginResult.wrote + authResult.wrote
                                        + providerResult.wrote)
                           : omoResult \in {writeOmoConfig(providerResult.fs, omo_, config,
                                                           ios.omo)} } : TRUE
                    : providerResult \in {addProviderConfig(authResult.fs, config,
                                                            ios.provider)} } : TRUE
             : authResult \in {addAuthPlugins(pluginResult.fs, config, authVersion,
                                              ios.auth)} } : TRUE
      : pluginResult \in
          {addPluginToOpenCodeConfig(fs_, getPluginNameWithVersion(currentVersion, distTags),
                                     ios.plugin)} } : TRUE

(***************************************************************************)
(* deepMerge on its own: a target and two sources drawn from documents of  *)
(* up to three nesting levels.                                             *)
(***************************************************************************)

\* Member k with value v, nothing when v is Absent.
Absent == [t |-> "absent", s |-> "", a |-> << >>]
Member(k, v) == IF v = Absent THEN << >> ELSE << [k |-> k, v |-> v] >>

\* The values one level down: scalars, arrays and small objects.
NestedValues ==
  { NumVal("1"), ArrVal(<< "x" >>),
    ObjVal(<< [k |-> "x", v |-> NumVal("1")] >>),
    ObjVal(<< [k |-> "x", v |-> ArrVal(<< "y", "x" >>)], [k |-> "y", v |-> NullVal] >>) }

MergeDocs ==
  { Member("custom", c) \o Member("theme", th) :
      c \in NestedValues \cup {Absent}, th \in NestedValues \cup {Absent} }
  \cup
  { << [k |-> "theme", v |-> StrVal("dark")],
       [k |-> "custom", v |-> ObjVal(<< [k |-> "y", v |-> NumVal("2")] >>)] >>,
    << [k |-> "custom",
        v |-> ObjVal(<< [k |-> "x", v |-> ObjVal(<< [k |-> "y", v |-> NumVal("1")] >>)] >>)] >>,
    << [k |-> "custom",
        v |-> ObjVal(<< [k |-> "x", v |-> ObjVal(<< [k |-> "x", v |-> ArrVal(<< "x" >>)] >>)],
                        [k |-> "y", v |-> NumVal("1")] >>)] >>,
    << [k |-> "custom", v |-> ObjVal(<< [k |-> "x", v |-> ObjVal(<< >>)] >>)] >> }

InitMerge ==
  /\ ModelIdle
  /\ PluginIdle
  /\ omo = NoFile
  /\ \E T \in MergeDocs, A \in MergeDocs, B \in MergeDocs :
       input = [op |-> "merge", T |-> T, A |-> A, B |-> B]
  /\ output = NoOutput
  /\ configContext = NoContext

\* deepMerge applied to the target with each source, and with both in
\* either order.
DeepMerge ==
  /\ output = NoOutput
  /\ output' = [op  |-> "merge",
                TA  |-> deepMerge(input.T, input.A),
                TB  |-> deepMerge(input.T, input.B),
                TAB |-> deepMerge(deepMerge(input.T, input.A), input.B),
                TBA |-> deepMerge(deepMerge(input.T, input.B), input.A)]
  /\ UNCHANGED <<mvars, pvars, omo, input, configContext>>

NextMerge == DeepMerge

SpecMerge == InitMerge /\ [][NextMerge]_vars

(***************************************************************************)
(* Resolution pass: one call of resolveModel and one of                    *)
(* generateModelConfig on inputs drawn from all flag combinations.         *)
(***************************************************************************)

InitModel ==
  /\ installConfig \in InstallConfig
  /\ capability \in ModelCapability
  /\ resolved = ""
  /\ generated = NoOmoConfig
  /\ pc = "start"
  /\ fs = EmptyDir
  /\ lastResult = NoResult
  /\ calls = 0
  /\ lastCall = NoCall
  /\ before = EmptyDir
  /\ omo = NoFile
  /\ input = NoInput
  /\ output = NoOutput
  /\ configContext = NoContext

ResolveModel ==
  /\ pc = "start"
  /\ resolved' = resolveModel(capability, toProviderAvailability(installConfig))
  /\ pc' = "resolved"
  /\ UNCHANGED <<installConfig, capability, generated>>
  /\ UNCHANGED <<pvars, xvars>>

GenerateModelConfig ==
  /\ pc \in {"start", "resolved"}
  /\ generated' = generateModelConfig(installConfig)
  /\ pc' = "generated"
  /\ UNCHANGED <<installConfig, capability, resolved>>
  /\ UNCHANGED <<pvars, xvars>>

NextModel == ResolveModel \/ GenerateModelConfig

SpecModel == InitModel /\ [][NextModel]_vars

(***************************************************************************)
(* Plugin registry editor: addPluginToOpenCodeConfig called up to MaxCalls *)
(* times on a config directory that is empty or holds a hand-written or a  *)
(* machine-written host config.                                            *)
(***************************************************************************)

MaxCalls == 2

\* items as quoted literals separated by ", ", the way a person writes them
RECURSIVE InlineItems(_, _)
InlineItems(items, i) ==
  IF i > Len(items) THEN << >>
  ELSE << Q(items[i]) >>
       \o (IF i < Len(items) THEN << ",", SP >> ELSE << >>)
       \o InlineItems(items, i + 1)

\* The plugin lists of the initial files; each holds at most one
\* oh-my-opencode entry.
InitialPluginLists ==
  { << >>,
    << "other-pkg" >>,
    << "oh-my-opencode@2.9.0" >>,
    << "oh-my-opencode@latest", "oh-my-opencode-themes" >>,
    << "other-pkg", "oh-my-opencode", "third-pkg" >> }

\* A hand-written opencode.jsonc.
\*   style:     "bare" (no comments), "trail" (a comment after the list and
\*              one before the closing brace), "lead" (those and a comment
\*              on the first line)
\*   commented: a commented-out plugin line: "none", "line" or "block"
\*   theme:     whether the key "theme" precedes the plugin key
\*   hasPlugin: whether the key "plugin" is present, with the list plugins
JsoncFile(style, commented, theme, hasPlugin, plugins) ==
  (IF style = "lead" THEN << "//", SP, "cfg", NL >> ELSE << >>)
  \o << "{", NL >>
  \o (CASE commented = "line" ->
             << SP, SP, "//", SP, Q("plugin"), ":", SP, "[", Q("old-pkg"), "]", ",", NL >>
        [] commented = "block" ->
             << SP, SP, "/*", SP, Q("plugin"), ":", SP, "[", Q("old-pkg"), "]", ",",
                SP, "*/", NL >>
        [] OTHER -> << >>)
  \o (IF theme
      THEN << SP, SP, Q("theme"), ":", SP, Q("dark") >>
           \o (IF hasPlugin THEN << "," >> ELSE << >>) \o << NL >>
      ELSE << >>)
  \o (IF hasPlugin
      THEN << SP, SP, Q("plugin"), ":", SP, "[" >> \o InlineItems(plugins, 1) \o << "]" >>
           \o (IF style # "bare" THEN << SP, "//", SP, "keep" >> ELSE << >>)
           \o << NL >>
      ELSE << >>)
  \o (IF style # "bare" THEN << SP, SP, "//", SP, "end", NL >> ELSE << >>)
  \o << "}", NL >>

InitialJsoncFiles ==
  { JsoncFile(style, commented, theme, TRUE, plugins) :
      style \in {"bare", "trail", "lead"}, commented \in {"none", "line", "block"},
      theme \in BOOLEAN, plugins \in InitialPluginLists }
  \cup
  { JsoncFile(style, commented, theme, FALSE, << >>) :
      style \in {"bare", "trail", "lead"}, commented \in {"none", "line", "block"},
      theme \in BOOLEAN }

\* An opencode.json as JSON.stringify leaves it.
JsonDoc(theme, hasPlugin, plugins) ==
  (IF theme THEN << [k |-> "theme", v |-> StrVal("dark")] >> ELSE << >>)
  \o (IF hasPlugin THEN << [k |-> "plugin", v |-> ArrVal(plugins)] >> ELSE << >>)

InitialJsonFiles ==
  { Stringify(JsonDoc(theme, TRUE, plugins)) :
      theme \in BOOLEAN, plugins \in InitialPluginLists }
  \cup { Stringify(JsonDoc(theme, FALSE, << >>)) : theme \in BOOLEAN }

\* Contents no object can be read from, by what is wrong with them.
BadContents ==
  [ kind \in {"empty", "whitespace", "syntax", "null", "array", "string", "number"} |->
      CASE kind = "empty"      -> << >>
        [] kind = "whitespace" -> << SP, NL, NL >>
        [] kind = "syntax"     -> << "{", NL, SP, SP, Q("plugin"), ":", SP, "[", NL >>
        [] kind = "null"       -> << "null", NL >>
        [] kind = "array"      -> << "[", Q("other-pkg"), "]", NL >>
        [] kind = "string"     -> << Q("dark"), NL >>
        [] kind = "number"     -> << "1", NL >> ]

\* The diagnosis parseConfigWithError gives for each of them.
Diagnosis ==
  [ kind \in DOMAIN BadContents |->
      CASE kind = "empty"      -> "Config file is empty"
        [] kind = "whitespace" -> "Config file contains only whitespace"
        [] kind = "syntax"     -> "JSON syntax error"
        [] kind = "null"       -> "Config file parsed to null/undefined"
        [] kind = "array"      -> "Config file must contain a JSON object, not an array"
        [] kind = "string"     -> "Config file must contain a JSON object, not string"
        [] kind = "number"     -> "Config file must contain a JSON object, not number" ]

InitialDirs ==
  {EmptyDir, [EmptyDir EXCEPT !.dir = TRUE]}
  \cup { [dir |-> TRUE,
          files |-> [p \in {configJsonc, configJson} |->
                       IF p = configJsonc THEN File(c) ELSE NoFile]] :
         c \in InitialJsoncFiles }
  \cup { [dir |-> TRUE,
          files |-> [p \in {configJsonc, configJson} |->
                       IF p = configJson THEN File(c) ELSE NoFile]] :
         c \in InitialJsonFiles }
  \cup { [dir |-> TRUE,
          files |-> [p \in {configJsonc, configJson} |->
                       IF p = configJsonc
                       THEN File(JsoncFile("trail", "none", TRUE, TRUE, << "other-pkg" >>))
                       ELSE File(Stringify(JsonDoc(FALSE, TRUE, << "third-pkg" >>)))]] }
  \cup { [dir |-> TRUE,
          files |-> [p \in {configJsonc, configJson} |->
                       IF p = path THEN File(BadContents[kind]) ELSE NoFile]] :
         path \in {configJsonc, configJson}, kind \in DOMAIN BadContents }

\* The registry's answers to the dist-tags lookup.
DistTagAnswers ==
  { NoDistTags,
    DistTags(<< [tag |-> "latest", version |-> "3.1.0"],
                [tag |-> "beta", version |-> "3.0.0"] >>),
    DistTags(<< [tag |-> "canary", version |-> "3.0.0"],
                [tag |-> "latest", version |-> "3.0.0"] >>) }

InitPlugin ==
  /\ fs \in InitialDirs
  /\ lastResult = NoResult
  /\ calls = 0
  /\ lastCall = NoCall
  /\ before = fs
  /\ omo = NoFile
  /\ input = NoInput
  /\ output = NoOutput
  /\ configContext = NoContext
  /\ installConfig = [hasClaude |-> FALSE, isMax20 |-> FALSE, hasOpenAI |-> FALSE,
                      hasGemini |-> FALSE, hasCopilot |-> FALSE,
                      hasOpencodeZen |-> FALSE, hasZaiCodingPlan |-> FALSE]
  /\ capability = "glm"
  /\ resolved = ""
  /\ generated = NoOmoConfig
  /\ pc = "start"

\* await addPluginToOpenCodeConfig(currentVersion), with the registry
\* answering distTags and the filesystem accepting or refusing the write.
AddPluginToOpenCodeConfig ==
  /\ calls < MaxCalls
  /\ \E currentVersion \in Versions, distTags \in DistTagAnswers, io \in {"ok", "fail"} :
       LET pluginEntry == getPluginNameWithVersion(currentVersion, distTags) IN
       \E out \in {addPluginToOpenCodeConfig(fs, pluginEntry, io)} :
           /\ fs' = out.fs
           /\ lastResult' = out.result
           /\ calls' = calls + 1
           /\ before' = fs
           /\ lastCall' =
                [ version      |-> currentVersion,
                  distTags     |-> distTags,
                  io           |-> io,
                  pluginEntry  |-> pluginEntry,
                  wrote        |-> out.wrote,
                  success      |-> out.result.success,
                  repeat       |-> /\ calls > 0
                                   /\ lastCall.success
                                   /\ lastCall.version = currentVersion
                                   /\ lastCall.distTags = distTags,
                  allSucceeded |-> lastCall.allSucceeded /\ out.result.success ]
  /\ configContext' = getConfigContext(configContext)
  /\ UNCHANGED <<mvars, omo, input, output>>

NextPlugin == AddPluginToOpenCodeConfig

SpecPlugin == InitPlugin /\ [][NextPlugin]_vars

(***************************************************************************)
(* parseConfigWithError on its own: one call on a file whose content is    *)
(* known by construction, with the read succeeding or failing.             *)
(***************************************************************************)

\* Files that hold an object, each with the object it holds.
ObjectFiles ==
  { [kind |-> "object", doc |-> JsonDoc(theme, TRUE, plugins),
     content |-> JsoncFile(style, commented, theme, TRUE, plugins)] :
      style \in {"bare", "trail", "lead"}, commented \in {"none", "block"},
      theme \in BOOLEAN, plugins \in InitialPluginLists }
  \cup
  { [kind |-> "object", doc |-> JsonDoc(theme, FALSE, << >>),
     content |-> Stringify(JsonDoc(theme, FALSE, << >>))] : theme \in BOOLEAN }
  \cup
  { [kind |-> "object",
     doc |-> << [k |-> "custom", v |-> ObjVal(<< [k |-> "x", v |-> NumVal("1")] >>)],
                [k |-> "theme", v |-> NullVal] >>,
     content |-> << "{", Q("custom"), ":", "{", Q("x"), ":", "1", ",", "}", ",",
                    Q("theme"), ":", "null", "}" >>] }

BadFiles ==
  { [kind |-> kind, doc |-> << >>, content |-> BadContents[kind]] :
      kind \in DOMAIN BadContents }

InitParse ==
  /\ ModelIdle
  /\ PluginIdle
  /\ omo = NoFile
  /\ \E f \in ObjectFiles \cup BadFiles, io \in {"ok"} \cup IOErrors :
       input = [op |-> "parse", kind |-> f.kind, doc |-> f.doc,
                content |-> f.content, io |-> io]
  /\ output = NoOutput
  /\ configContext = NoContext

\* parseConfigWithError(path) on the file of `input`.
ParseConfigWithError ==
  /\ output = NoOutput
  /\ output' = [op |-> "parse",
                result |-> parseConfigWithError(File(input.content), input.io)]
  /\ UNCHANGED <<mvars, pvars, omo, input, configContext>>

NextParse == ParseConfigWithError

SpecParse == InitParse /\ [][NextParse]_vars

(***************************************************************************)
(* Settings file writer: one writeOmoConfig call on a settings file that   *)
(* is absent, unreadable, or holds a user's document.                      *)
(***************************************************************************)

Flags(claude, max20, openai, gemini, copilot, zen, zai) ==
  [hasClaude |-> claude, isMax20 |-> max20, hasOpenAI |-> openai,
   hasGemini |-> gemini, hasCopilot |-> copilot, hasOpencodeZen |-> zen,
   hasZaiCodingPlan |-> zai]

\* The install configurations the writer is run with.
InstallConfigs ==
  { Flags(FALSE, FALSE, FALSE, FALSE, FALSE, FALSE, FALSE),
    Flags(TRUE, FALSE, FALSE, FALSE, FALSE, FALSE, FALSE),
    Flags(TRUE, TRUE, FALSE, FALSE, FALSE, FALSE, FALSE),
    Flags(FALSE, FALSE, TRUE, FALSE, FALSE, FALSE, FALSE),
    Flags(FALSE, FALSE, FALSE, TRUE, FALSE, FALSE, FALSE),
    Flags(FALSE, FALSE, FALSE, FALSE, TRUE, FALSE, FALSE),
    Flags(FALSE, FALSE, FALSE, FALSE, FALSE, TRUE, TRUE),
    Flags(TRUE, TRUE, TRUE, TRUE, TRUE, TRUE, TRUE) }

CustomX == [k |-> "custom", v |-> ObjVal(<< [k |-> "x", v |-> NumVal("1")] >>)]
UserEntry == ObjVal(<< [k |-> "model", v |-> StrVal("my/model")] >>)
EditedEntry ==
  ObjVal(<< [k |-> "prompt", v |-> StrVal("terse")],
            [k |-> "model", v |-> StrVal("my/model")],
            [k |-> "variant", v |-> StrVal("terse")] >>)

\* Settings documents a user may have: unrelated keys, agents and
\* categories of their own, fields added to generated entries, values of
\* the wrong shape under generated keys, and an earlier generated document.
UserOmoDocs ==
  { << >>,
    << CustomX >>,
    << [k |-> "agents",
        v |-> ObjVal(<< [k |-> "my-agent", v |-> UserEntry],
                        [k |-> "oracle", v |-> EditedEntry],
                        [k |-> "explore", v |-> ObjVal(<< [k |-> "prompt", v |-> NullVal] >>)] >>)],
       CustomX,
       [k |-> "categories",
        v |-> ObjVal(<< [k |-> "quick", v |-> EditedEntry],
                        [k |-> "my-category", v |-> UserEntry] >>)] >>,
    << [k |-> "agents", v |-> StrVal("x")],
       [k |-> "categories", v |-> ArrVal(<< "x" >>)],
       [k |-> "theme", v |-> NullVal] >>,
    << [k |-> "agents",
        v |-> ObjVal(<< [k |-> "oracle", v |-> StrVal("my/model")],
                        [k |-> "Atlas",
                         v |-> ObjVal(<< [k |-> "model",
                                          v |-> ObjVal(<< [k |-> "x", v |-> NumVal("1")] >>)],
                                         [k |-> "y", v |-> ArrVal(<< "x", "y" >>)] >>)] >>)],
       [k |-> "custom", v |-> ArrVal(<< "x", "y" >>)] >>,
    Append(generateOmoConfig(Flags(TRUE, TRUE, TRUE, TRUE, TRUE, TRUE, TRUE)), CustomX) }

\* doc as a hand-edited file: a comment before and after the document.
JsoncOf(doc) ==
  << "//", SP, "cfg", NL >> \o Stringify(doc) \o << "/*", SP, "end", SP, "*/", NL >>

OmoFiles ==
  { [kind |-> "object", doc |-> d, content |-> Stringify(d)] : d \in UserOmoDocs }
  \cup { [kind |-> "object", doc |-> d, content |-> JsoncOf(d)] : d \in UserOmoDocs }
  \cup BadFiles

InitOmo ==
  /\ installConfig \in InstallConfigs
  /\ capability = "glm" /\ resolved = "" /\ generated = NoOmoConfig /\ pc = "start"
  /\ lastResult = NoResult /\ calls = 0 /\ lastCall = NoCall /\ before = EmptyDir
  /\ \/ /\ fs \in {EmptyDir, [EmptyDir EXCEPT !.dir = TRUE]}
        /\ omo = NoFile
        /\ input = [op |-> "omo", kind |-> "absent", doc |-> << >>]
     \/ /\ fs = [EmptyDir EXCEPT !.dir = TRUE]
        /\ \E f \in OmoFiles :
             /\ omo = File(f.content)
             /\ input = [op |-> "omo", kind |-> f.kind, doc |-> f.doc]
  /\ output = NoOutput
  /\ configContext = NoContext

\* writeOmoConfig(installConfig), the filesystem accepting the write or
\* refusing it for cause io.
WriteOmoConfig ==
  /\ output = NoOutput
  /\ \E io \in {"ok", "EACCES", "ENOSPC"} :
       \E out \in {writeOmoConfig(fs, omo, installConfig, io)} :
           /\ fs' = out.fs
           /\ omo' = out.omo
           /\ output' = [op |-> "omo", io |-> io, result |-> out.result]
  /\ configContext' = getConfigContext(configContext)
  /\ UNCHANGED <<installConfig, capability, resolved, generated, pc,
                 lastResult, calls, lastCall, before, input>>

NextOmo == WriteOmoConfig

SpecOmo == InitOmo /\ [][NextOmo]_vars

(***************************************************************************)
(* Host config editors: addAuthPlugins and addProviderConfig called up to  *)
(* MaxCalls times, in any order, on a host config a user wrote.            *)
(***************************************************************************)

OllamaEntry ==
  ObjVal(<< [k |-> "name", v |-> StrVal("Local")], [k |-> "npm", v |-> StrVal("x")] >>)

\* Host configs with keys around plugin and provider, provider entries of
\* the user's own, and plugin / provider values of other shapes.
HostDocs ==
  { << >>,
    << [k |-> "theme", v |-> StrVal("dark")],
       [k |-> "plugin", v |-> ArrVal(<< "other-pkg" >>)],
       [k |-> "provider", v |-> ObjVal(<< [k |-> "ollama", v |-> OllamaEntry] >>)],
       CustomX >>,
    << [k |-> "provider",
        v |-> ObjVal(<< [k |-> "google",
                         v |-> ObjVal(<< [k |-> "name", v |-> StrVal("Mine")] >>)],
                        [k |-> "ollama", v |-> OllamaEntry] >>)],
       [k |-> "theme", v |-> StrVal("dark")] >>,
    << CustomX,
       [k |-> "plugin",
        v |-> ArrVal(<< "oh-my-opencode@3.0.0", "opencode-antigravity-auth@1.2.0" >>)] >>,
    << [k |-> "theme", v |-> StrVal("dark")], [k |-> "plugin", v |-> StrVal("other-pkg")] >>,
    << [k |-> "provider", v |-> StrVal("x")], CustomX >>,
    << [k |-> "provider", v |-> NullVal], [k |-> "plugin", v |-> NullVal],
       [k |-> "theme", v |-> StrVal("dark")] >>,
    << [k |-> "provider", v |-> ArrVal(<< "x" >>)], [k |-> "plugin", v |-> ArrVal(<< >>)],
       [k |-> "custom", v |-> BoolVal("false")] >> }

HostDirs ==
  {EmptyDir, [EmptyDir EXCEPT !.dir = TRUE]}
  \cup { [dir |-> TRUE,
          files |-> [p \in {configJsonc, configJson} |->
                       IF p = configJson THEN File(Stringify(d)) ELSE NoFile]] :
         d \in HostDocs }
  \cup { [dir |-> TRUE,
          files |-> [p \in {configJsonc, configJson} |->
                       IF p = configJsonc THEN File(JsoncOf(d)) ELSE NoFile]] :
         d \in HostDocs }
  \cup { [dir |-> TRUE,
          files |-> [p \in {configJsonc, configJson} |->
                       IF p = configJsonc
                       THEN File(JsoncFile("trail", "line", TRUE, TRUE, << "other-pkg" >>))
                       ELSE NoFile]] }
  \cup { [dir |-> TRUE,
          files |-> [p \in {configJsonc, configJson} |->
                       IF p = configJson THEN File(BadContents[kind]) ELSE NoFile]] :
         kind \in {"empty", "whitespace", "syntax", "array"} }

InitHost ==
  /\ installConfig \in InstallConfigs
  /\ capability = "glm" /\ resolved = "" /\ generated = NoOmoConfig /\ pc = "start"
  /\ fs \in HostDirs
  /\ lastResult = NoResult /\ calls = 0 /\ lastCall = NoCall
  /\ before = fs
  /\ omo = NoFile
  /\ input = NoInput
  /\ output = NoOutput
  /\ configContext = NoContext

\* await addAuthPlugins(config), the registry answering version.
AddAuthPlugins ==
  /\ calls < MaxCalls
  /\ \E version \in AuthVersions, io \in {"ok", "EACCES"} :
       \E out \in {addAuthPlugins(fs, installConfig, version, io)} :
           /\ fs' = out.fs
           /\ lastResult' = out.result
           /\ output' = [op |-> "auth", io |-> io, version |-> version]
  /\ calls' = calls + 1
  /\ before' = fs
  /\ configContext' = getConfigContext(configContext)
  /\ UNCHANGED <<mvars, lastCall, omo, input>>

\* addProviderConfig(config)
AddProviderConfig ==
  /\ calls < MaxCalls
  /\ \E io \in {"ok", "EACCES"} :
       \E out \in {addProviderConfig(fs, installConfig, io)} :
           /\ fs' = out.fs
           /\ lastResult' = out.result
           /\ output' = [op |-> "provider", io |-> io, version |-> ""]
  /\ calls' = calls + 1
  /\ before' = fs
  /\ configContext' = getConfigContext(configContext)
  /\ UNCHANGED <<mvars, lastCall, omo, input>>

NextHost == AddAuthPlugins \/ AddProviderConfig

SpecHost == InitHost /\ [][NextHost]_vars

(***************************************************************************)
(* Install run: one run of runNonTuiInstall on a config directory and a    *)
(* settings file, each step's I/O succeeding or failing.                   *)
(***************************************************************************)

InstallDirs ==
  { EmptyDir,
    [EmptyDir EXCEPT !.dir = TRUE],
    [dir |-> TRUE,
     files |-> [p \in {configJsonc, configJson} |->
                  IF p = configJson
                  THEN File(Stringify(<< [k |-> "theme", v |-> StrVal("dark")],
                                         [k |-> "plugin", v |-> ArrVal(<< "other-pkg" >>)] >>))
                  ELSE NoFile]],
    [dir |-> TRUE,
     files |-> [p \in {configJsonc, configJson} |->
                  IF p = configJsonc
                  THEN File(JsoncFile("trail", "none", TRUE, TRUE, << "oh-my-opencode@2.9.0" >>))
                  ELSE NoFile]],
    [dir |-> TRUE,
     files |-> [p \in {configJsonc, configJson} |->
                  IF p = configJson THEN File(BadContents["syntax"]) ELSE NoFile]] }

InstallOmoFiles ==
  { NoFile, File(BadContents["array"]),
    File(Stringify(<< CustomX,
                      [k |-> "agents",
                       v |-> ObjVal(<< [k |-> "oracle", v |-> EditedEntry] >>)] >>)) }

\* The I/O outcomes of the steps of a run: all fine, or one step refused.
StepOutcomes ==
  { [s \in {"plugin", "auth", "provider", "omo"} |-> IF s = bad THEN "EACCES" ELSE "ok"] :
      bad \in {"none", "plugin", "auth", "provider", "omo"} }

\* The install configurations of a run: no provider, Claude max20, Gemini
\* alone (the auth and provider steps run), every provider.
RunConfigs ==
  { Flags(FALSE, FALSE, FALSE, FALSE, FALSE, FALSE, FALSE),
    Flags(TRUE, TRUE, FALSE, FALSE, FALSE, FALSE, FALSE),
    Flags(FALSE, FALSE, FALSE, TRUE, FALSE, FALSE, FALSE),
    Flags(TRUE, TRUE, TRUE, TRUE, TRUE, TRUE, TRUE) }

InitInstall ==
  /\ installConfig \in RunConfigs
  /\ capability = "glm" /\ resolved = "" /\ generated = NoOmoConfig /\ pc = "start"
  /\ fs \in InstallDirs
  /\ omo \in IF fs.dir THEN InstallOmoFiles ELSE {NoFile}
  /\ lastResult = NoResult /\ calls = 0 /\ lastCall = NoCall
  /\ before = fs
  /\ input = NoInput
  /\ output = NoOutput
  /\ configContext = NoContext

\* One run of the installer with installConfig as its arguments.
RunNonTuiInstall ==
  /\ output = NoOutput
  /\ \E installed \in BOOLEAN, currentVersion \in Versions, distTags \in {NoDistTags},
        authVersion \in AuthVersions, ios \in StepOutcomes :
       \E out \in {runNonTuiInstall(fs, omo, installConfig, installed, currentVersion,
                                   distTags, authVersion, ios)} :
           /\ fs' = out.fs
           /\ omo' = out.omo
           /\ input' = [op |-> "install", installed |-> installed,
                        currentVersion |-> currentVersion, distTags |-> distTags,
                        authVersion |-> authVersion, ios |-> ios, omo |-> omo]
           /\ output' = [op |-> "install", exit |-> out.exit, ran |-> out.ran,
                         hostWrote |-> out.hostWrote]
  /\ calls' = calls + 1
  /\ before' = fs
  /\ configContext' = getConfigContext(configContext)
  /\ UNCHANGED <<mvars, lastResult, lastCall>>

NextInstall == RunNonTuiInstall

SpecInstall == InitInstall /\ [][NextInstall]_vars

(***************************************************************************)
(* Format detector: one detectConfigFormat call on a config directory in   *)
(* which each of the two host config files is absent or present with any   *)
(* kind of content.                                                        *)
(***************************************************************************)

\* What a host config file may hold; the detector looks at existence only.
DetectFiles ==
  { NoFile,
    File(BadContents["empty"]),
    File(BadContents["syntax"]),
    File(JsoncFile("lead", "line", TRUE, TRUE, << "oh-my-opencode@2.9.0" >>)),
    File(Stringify(JsonDoc(TRUE, TRUE, << "other-pkg" >>))) }

DetectDirs ==
  { [dir |-> (c.exists \/ j.exists \/ d),
     files |-> [p \in {configJsonc, configJson} |-> IF p = configJsonc THEN c ELSE j]] :
      c \in DetectFiles, j \in DetectFiles, d \in BOOLEAN }

\* The context as the call finds it: never read, or set by an earlier
\* findOpenCodeBinaryWithVersion.
DetectContexts ==
  { NoContext, initConfigContext("opencode", "1.0.0"),
    initConfigContext("opencode-desktop", "1.0.0") }

InitDetect ==
  /\ ModelIdle
  /\ fs \in DetectDirs
  /\ omo \in IF fs.dir THEN {NoFile, File(BadContents["array"])} ELSE {NoFile}
  /\ configContext \in DetectContexts
  /\ lastResult = NoResult /\ calls = 0 /\ lastCall = NoCall
  /\ before = fs
  /\ input = [op |-> "detect", omo |-> omo, context |-> configContext]
  /\ output = NoOutput

\* detectConfigFormat()
DetectConfigFormat ==
  /\ output = NoOutput
  /\ output' = [op |-> "detect", result |-> detectConfigFormat(fs)]
  /\ configContext' = getConfigContext(configContext)
  /\ UNCHANGED <<mvars, pvars, omo, input>>

NextDetect == DetectConfigFormat

SpecDetect == InitDetect /\ [][NextDetect]_vars

(***************************************************************************)
(* Install run, step by step: runNonTuiInstall from detectCurrentConfig to *)
(* its return, each awaited call one step, and the installer started again *)
(* after a run that returned 0, up to MaxRuns runs.  pc is the call the    *)
(* run makes next.                                                         *)
(***************************************************************************)

MaxRuns == 2

\* The host configs a run starts from.
RunDirs ==
  { EmptyDir,
    [EmptyDir EXCEPT !.dir = TRUE] }
  \cup { [dir |-> TRUE,
          files |-> [p \in {configJsonc, configJson} |->
                       IF p = configJson THEN File(c) ELSE NoFile]] :
         c \in { Stringify(<< [k |-> "theme", v |-> StrVal("dark")],
                              [k |-> "plugin", v |-> ArrVal(<< "other-pkg" >>)] >>),
                 Stringify(<< [k |-> "plugin", v |-> StrVal("other-pkg")] >>),
                 BadContents["syntax"],
                 BadContents["empty"] } }
  \cup { [dir |-> TRUE,
          files |-> [p \in {configJsonc, configJson} |->
                       IF p = configJsonc THEN File(c) ELSE NoFile]] :
         c \in { JsoncFile("bare", "none", TRUE, FALSE, << >>),
                 JsoncFile("trail", "none", TRUE, TRUE, << "oh-my-opencode@2.9.0" >>),
                 JsoncFile("trail", "none", FALSE, TRUE, << "other-pkg" >>),
                 JsoncFile("lead", "none", TRUE, FALSE, << >>),
                 JsoncFile("lead", "none", TRUE, TRUE, << "other-pkg" >>),
                 JsoncFile("trail", "line", TRUE, FALSE, << >>),
                 JsoncFile("trail", "block", FALSE, TRUE, << "other-pkg" >>),
                 JsoncOf(<< [k |-> "provider",
                             v |-> ObjVal(<< [k |-> "ollama", v |-> OllamaEntry] >>)] >>),
                 BadContents["syntax"] } }
  \cup { [dir |-> TRUE,
          files |-> [p \in {configJsonc, configJson} |->
                       IF p = configJsonc
                       THEN File(JsoncFile("trail", "none", TRUE, TRUE, << "other-pkg" >>))
                       ELSE File(Stringify(JsonDoc(FALSE, TRUE, << "third-pkg" >>)))]] }

\* The settings files a run starts from.
RunOmoFiles ==
  { NoFile,
    File(BadContents["array"]),
    File(JsoncOf(<< CustomX,
                    [k |-> "agents",
                     v |-> ObjVal(<< [k |-> "oracle", v |-> EditedEntry] >>)] >>)) }

\* The machine the installer runs on: the binaries that answer --version
\* and what they print, VERSION of the installer, the registry's answers.
RunMachines ==
  { [op |-> "run", answering |-> a, openCodeVersion |-> "1.0.0",
     currentVersion |-> "3.0.0", distTags |-> NoDistTags, authVersion |-> "1.2.7"] :
      a \in { {}, {"opencode", "opencode-desktop"}, {"opencode-desktop"} } }

\* The log of a run that has not made a call yet: what detection said and
\* the context it read, the steps made with the I/O outcome each met and
\* whether it succeeded, the settings file the run found, the exit code
\* (-1 while the run has not returned).
RunLog(omo_) ==
  [op |-> "run", detected |-> NotDetected, contextAtDetection |-> NoContext,
   ran |-> << >>, ios |-> << >>, results |-> << >>, omoAtStart |-> omo_, exit |-> -1]

\* What is kept of the runs before the current one.
NoEarlierRun == [exit |-> -1, fs |-> EmptyDir, omo |-> NoFile, ran |-> << >>]

InitRun ==
  /\ capability = "glm" /\ resolved = "" /\ generated = NoOmoConfig
  /\ pc = "detectCurrentConfig"
  /\ \/ /\ installConfig \in InstallConfig
        /\ fs = EmptyDir
        /\ omo = NoFile
        /\ input \in {m \in RunMachines : m.answering = {"opencode", "opencode-desktop"}}
     \/ /\ installConfig \in RunConfigs
        /\ fs \in RunDirs
        /\ omo \in IF fs.dir THEN RunOmoFiles ELSE {NoFile}
        /\ input \in RunMachines
  /\ lastResult = NoResult /\ calls = 1 /\ lastCall = NoEarlierRun
  /\ before = fs
  /\ output = RunLog(omo)
  /\ configContext = NoContext

\* `return code` of runNonTuiInstall.
Return(code) ==
  /\ pc' = "returned"
  /\ output' = [output EXCEPT !.exit = code]

\* The run going on to the next call whatever the result says.
AfterStep_ignoresFailure(step, io, result, next) ==
  /\ lastResult' = result
  /\ pc' = next
  /\ output' = [output EXCEPT !.ran = Append(@, step),
                              !.ios = Append(@, io),
                              !.results = Append(@, result.success),
                              !.exit = IF next = "returned" THEN 0 ELSE @]

\* A step that is a ConfigMergeResult-returning call: it is logged with the
\* I/O outcome it met, a
\* failure returns 1, a success goes on to the call `next`.
AfterStep(step, io, result, next) ==
  /\ lastResult' = result
  /\ pc' = IF result.success THEN next ELSE "returned"
  /\ output' = [output EXCEPT !.ran = Append(@, step),
                              !.ios = Append(@, io),
                              !.results = Append(@, result.success),
                              !.exit = IF ~result.success THEN 1
                                       ELSE IF next = "returned" THEN 0 ELSE @]

\* const detected = detectCurrentConfig()
RunDetectCurrentConfig ==
  /\ pc = "detectCurrentConfig"
  /\ \E detected \in {detectCurrentConfig(fs, omo)} :
       /\ pc' = IF detected.threw THEN "threw" ELSE "isOpenCodeInstalled"
       /\ output' = [output EXCEPT !.detected = detected,
                                   !.contextAtDetection = getConfigContext(configContext)]
  /\ configContext' = getConfigContext(configContext)
  /\ UNCHANGED <<installConfig, capability, resolved, generated, fs, omo, lastResult,
                 calls, lastCall, before, input>>

\* const installed = await isOpenCodeInstalled(); if (!installed) return 1
RunIsOpenCodeInstalled ==
  /\ pc = "isOpenCodeInstalled"
  /\ \E result \in {findOpenCodeBinaryWithVersion(configContext, input.answering,
                                                 input.openCodeVersion)} :
       /\ configContext' = result.context
       /\ IF result.found
          THEN pc' = "getOpenCodeVersion" /\ UNCHANGED output
          ELSE Return(1)
  /\ UNCHANGED <<installConfig, capability, resolved, generated, fs, omo, lastResult,
                 calls, lastCall, before, input>>

\* const version = await getOpenCodeVersion()
RunGetOpenCodeVersion ==
  /\ pc = "getOpenCodeVersion"
  /\ \E result \in {findOpenCodeBinaryWithVersion(configContext, input.answering,
                                                 input.openCodeVersion)} :
       configContext' = result.context
  /\ pc' = "addPluginToOpenCodeConfig"
  /\ UNCHANGED <<installConfig, capability, resolved, generated, fs, omo, lastResult,
                 calls, lastCall, before, input, output>>

\* const pluginResult = await addPluginToOpenCodeConfig(VERSION)
RunAddPluginToOpenCodeConfig ==
  /\ pc = "addPluginToOpenCodeConfig"
  /\ \E io \in {"ok", "EACCES"} :
       \E out \in {addPluginToOpenCodeConfig(
                     fs, getPluginNameWithVersion(input.currentVersion, input.distTags), io)} :
         /\ fs' = out.fs
         /\ AfterStep("addPluginToOpenCodeConfig", io, out.result,
                      IF installConfig.hasGemini THEN "addAuthPlugins" ELSE "writeOmoConfig")
  /\ configContext' = getConfigContext(configContext)
  /\ UNCHANGED <<installConfig, capability, resolved, generated, omo,
                 calls, lastCall, before, input>>

\* const authResult = await addAuthPlugins(config)
RunAddAuthPlugins ==
  /\ pc = "addAuthPlugins"
  /\ \E io \in {"ok", "EACCES"} :
       \E out \in {addAuthPlugins(fs, installConfig, input.authVersion, io)} :
         /\ fs' = out.fs
         /\ AfterStep("addAuthPlugins", io, out.result, "addProviderConfig")
  /\ configContext' = getConfigContext(configContext)
  /\ UNCHANGED <<installConfig, capability, resolved, generated, omo,
                 calls, lastCall, before, input>>

\* const providerResult = addProviderConfig(config)
RunAddProviderConfig ==
  /\ pc = "addProviderConfig"
  /\ \E io \in {"ok", "EACCES"} :
       \E out \in {addProviderConfig(fs, installConfig, io)} :
         /\ fs' = out.fs
         /\ AfterStep("addProviderConfig", io, out.result, "writeOmoConfig")
  /\ configContext' = getConfigContext(configContext)
  /\ UNCHANGED <<installConfig, capability, resolved, generated, omo,
                 calls, lastCall, before, input>>

\* const omoResult = writeOmoConfig(config), and the return 0 that follows
\* a success (nothing between the two changes a file or the context).
RunWriteOmoConfig ==
  /\ pc = "writeOmoConfig"
  /\ \E io \in {"ok", "EACCES"} :
       \E out \in {writeOmoConfig(fs, omo, installConfig, io)} :
         /\ fs' = out.fs
         /\ omo' = out.omo
         /\ AfterStep("writeOmoConfig", io, out.result, "returned")
  /\ configContext' = getConfigContext(configContext)
  /\ UNCHANGED <<installConfig, capability, resolved, generated,
                 calls, lastCall, before, input>>

\* The installer started again, a new process, with the same arguments on
\* the same machine, after a run that returned 0.
RunAgain ==
  /\ pc = "returned"
  /\ output.exit = 0
  /\ calls < MaxRuns
  /\ calls' = calls + 1
  /\ lastCall' = [exit |-> output.exit, fs |-> fs, omo |-> omo, ran |-> output.ran]
  /\ before' = fs
  /\ pc' = "detectCurrentConfig"
  /\ output' = RunLog(omo)
  /\ lastResult' = NoResult
  /\ configContext' = NoContext
  /\ UNCHANGED <<installConfig, capability, resolved, generated, fs, omo, input>>

NextRun ==
  \/ RunDetectCurrentConfig
  \/ RunIsOpenCodeInstalled
  \/ RunGetOpenCodeVersion
  \/ RunAddPluginToOpenCodeConfig
  \/ RunAddAuthPlugins
  \/ RunAddProviderConfig
  \/ RunWriteOmoConfig
  \/ RunAgain

SpecRun == InitRun /\ [][NextRun]_vars

(***************************************************************************)
(* Regeneration: writeOmoConfig called with one install configuration and  *)
(* then with another, on a settings file that is absent at first.          *)
(***************************************************************************)

InitRegenerate ==
  /\ installConfig \in InstallConfig
  /\ capability = "glm" /\ resolved = "" /\ generated = NoOmoConfig
  /\ pc = "first"
  /\ fs \in {EmptyDir, [EmptyDir EXCEPT !.dir = TRUE]}
  /\ omo = NoFile
  /\ lastResult = NoResult /\ calls = 0 /\ lastCall = NoCall
  /\ before = fs
  /\ \E c2 \in InstallConfig :
       input = [op |-> "regenerate", c1 |-> installConfig, c2 |-> c2]
  /\ output = NoOutput
  /\ configContext = NoContext

\* writeOmoConfig(c1) on the absent file
WriteFirst ==
  /\ pc = "first"
  /\ \E out \in {writeOmoConfig(fs, omo, input.c1, "ok")} :
       /\ fs' = out.fs
       /\ omo' = out.omo
       /\ lastResult' = out.result
  /\ pc' = "second"
  /\ installConfig' = input.c2
  /\ calls' = calls + 1
  /\ configContext' = getConfigContext(configContext)
  /\ UNCHANGED <<capability, resolved, generated, lastCall, before, input, output>>

\* writeOmoConfig(c2) on the file the first call wrote
WriteSecond ==
  /\ pc = "second"
  /\ \E out \in {writeOmoConfig(fs, omo, input.c2, "ok")} :
       /\ fs' = out.fs
       /\ omo' = out.omo
       /\ lastResult' = out.result
       /\ output' = [op |-> "regenerate", first |-> omo, result |-> out.result]
  /\ pc' = "done"
  /\ calls' = calls + 1
  /\ configContext' = getConfigContext(configContext)
  /\ UNCHANGED <<installConfig, capability, resolved, generated, lastCall, before, input>>

NextRegenerate == WriteFirst \/ WriteSecond

SpecRegenerate == InitRegenerate /\ [][NextRegenerate]_vars

(***************************************************************************)
(* Claims about the model resolution engine, checked under SpecModel.      *)
(***************************************************************************)

avail_ == toProviderAvailability(installConfig)

\* No entry of the capability's native chain has an available provider.
NoNativeMatch ==
  \A i \in DOMAIN NATIVE_FALLBACK_CHAINS[capability] :
    ~avail_.native[NATIVE_FALLBACK_CHAINS[capability][i].provider]

HighRoles == {r \in Range(AgentRoles) : AGENT_REQUIREMENTS[r].capability = "unspecified-high"}
HighCategories == {c \in Range(CategoryNames) : CATEGORY_REQUIREMENTS[c].capability = "unspecified-high"}
LowCategories == {c \in Range(CategoryNames) : CATEGORY_REQUIREMENTS[c].capability = "unspecified-low"}

\* C1: for every capability and every combination of the provider flags,
\* resolveModel returns a non-empty identifier, and generateModelConfig
\* gives every agent role and every category a non-empty model.
C1_NonEmptyModel ==
  /\ pc = "resolved" => resolved # ""
  /\ pc = "generated" =>
       /\ \A r \in Range(AgentRoles) :
            r \in DOMAIN generated.agents /\ generated.agents[r].model # ""
       /\ \A c \in Range(CategoryNames) :
            c \in DOMAIN generated.categories /\ generated.categories[c].model # ""

C1_Witness ==
  /\ pc = "resolved"
  /\ capability = "glm"
  /\ installConfig.hasClaude
  /\ ~installConfig.hasOpencodeZen /\ ~installConfig.hasCopilot
  /\ ~installConfig.hasZaiCodingPlan
  /\ resolved = ULTIMATE_FALLBACK

\* C2: when some provider of the capability's native chain is available,
\* resolveModel returns the model of the first chain entry, in chain order,
\* whose provider is available, whatever opencodeZen, copilot and zai are.
C2_FirstAvailableNative ==
  pc = "resolved" =>
    \A i \in DOMAIN NATIVE_FALLBACK_CHAINS[capability] :
      LET chain == NATIVE_FALLBACK_CHAINS[capability]
      IN  ( /\ avail_.native[chain[i].provider]
            /\ \A j \in 1..(i - 1) : ~avail_.native[chain[j].provider] )
          => resolved = chain[i].model

C2_Witness ==
  /\ pc = "resolved"
  /\ capability = "ultrabrain"
  /\ ~installConfig.hasOpenAI /\ installConfig.hasClaude /\ installConfig.hasGemini
  /\ installConfig.hasOpencodeZen /\ installConfig.hasCopilot
  /\ resolved = "anthropic/claude-opus-4-5"

C4_CopilotBeforeZen ==
  /\ (pc = "resolved" /\ NoNativeMatch /\ avail_.copilot /\ avail_.opencodeZen)
       => resolved = GITHUB_COPILOT_MODELS[capability]
  /\ ( /\ pc = "generated"
       /\ ~avail_.native.claude /\ ~avail_.native.openai /\ ~avail_.native.gemini
       /\ avail_.copilot /\ avail_.opencodeZen )
       => \A c \in Range(CategoryNames) \ HighCategories :
            generated.categories[c].model
              = GITHUB_COPILOT_MODELS[CATEGORY_REQUIREMENTS[c].capability]

NoProviderDeclared ==
  /\ ~installConfig.hasClaude /\ ~installConfig.hasOpenAI
  /\ ~installConfig.hasGemini /\ ~installConfig.hasOpencodeZen
  /\ ~installConfig.hasCopilot /\ ~installConfig.hasZaiCodingPlan

\* C6: with no provider declared, for either value of isMax20, every agent
\* role and every category gets opencode/glm-4.7-free, and the two maps
\* have exactly the keys of AGENT_REQUIREMENTS and CATEGORY_REQUIREMENTS.
C6_NoProviderAllFallback ==
  (pc = "generated" /\ NoProviderDeclared) =>
    /\ DOMAIN generated.agents = DOMAIN AGENT_REQUIREMENTS
    /\ DOMAIN generated.categories = DOMAIN CATEGORY_REQUIREMENTS
    /\ \A r \in DOMAIN generated.agents :
         generated.agents[r].model = "opencode/glm-4.7-free"
    /\ \A c \in DOMAIN generated.categories :
         generated.categories[c].model = "opencode/glm-4.7-free"

C6_Witness ==
  /\ pc = "generated"
  /\ NoProviderDeclared
  /\ installConfig.isMax20
  /\ generated.agents["explore"].model = ULTIMATE_FALLBACK
  /\ generated.categories["writing"].model = ULTIMATE_FALLBACK

\* The entry carries exactly the variant its requirement declares.
VariantPassedThrough(req, entry) ==
  IF "variant" \in DOMAIN req
  THEN "variant" \in DOMAIN entry /\ entry.variant = req.variant
  ELSE "variant" \notin DOMAIN entry

\* C7: for every provider availability, an entry whose requirement declares
\* a variant (oracle: high, Momus: medium, artistry: max) carries exactly
\* that variant, and an entry whose requirement declares none has none.
C7_VariantPassThrough ==
  pc = "generated" =>
    /\ \A r \in Range(AgentRoles) :
         VariantPassedThrough(AGENT_REQUIREMENTS[r], generated.agents[r])
    /\ \A c \in Range(CategoryNames) :
         VariantPassedThrough(CATEGORY_REQUIREMENTS[c], generated.categories[c])

(***************************************************************************)
(* Claims about the plugin registry editor, checked under SpecPlugin.      *)
(***************************************************************************)

\* The plugin list as read back from the host config of a directory.
ReadPlugins(fs_) ==
  LET det == detectConfigFormat(fs_) IN
  IF det.format = "none" THEN [ok |-> FALSE, plugins |-> << >>]
  ELSE LET r == parseConfigWithError(fs_.files[det.path], "ok")
       IN  [ok |-> r.ok, plugins |-> PluginsOf(r.config)]

OmoCount(plugins) == Cardinality({i \in DOMAIN plugins : IsOmoEntry(plugins[i])})

\* C8: plugin-ensure is idempotent: a second call with the same version and
\* the same registry answer, right after a successful first one, performs
\* no write at all and leaves the file byte-identical.
C8_SecondCallWritesNothing ==
  lastCall.repeat => (lastCall.wrote = 0 /\ fs = before)

\* C9: after any sequence of successful calls, from an absent file or a
\* parseable config with at most one oh-my-opencode entry, the plugin list
\* read back holds exactly one oh-my-opencode entry, the one the last call
\* requested.
C9_ExactlyOneEntry ==
  (calls >= 1 /\ lastCall.allSucceeded) =>
    LET r == ReadPlugins(fs) IN
    /\ r.ok
    /\ OmoCount(r.plugins) = 1
    /\ \E i \in DOMAIN r.plugins : r.plugins[i] = lastCall.pluginEntry

\* C10: a successful call changes the plugin list only at the plugin's own
\* position: an existing oh-my-opencode entry is replaced at its index, a
\* missing one is appended last, every other entry keeps value and order.
C10_OnlyOwnPosition ==
  (calls >= 1 /\ lastCall.success) =>
    LET old == ReadPlugins(before).plugins
        new == ReadPlugins(fs)
        at  == {i \in DOMAIN old : IsOmoEntry(old[i])}
    IN  /\ new.ok
        /\ IF at # {}
           THEN /\ Len(new.plugins) = Len(old)
                /\ \A i \in DOMAIN old :
                     new.plugins[i] = IF i = MinOf(at) THEN lastCall.pluginEntry ELSE old[i]
           ELSE /\ Len(new.plugins) = Len(old) + 1
                /\ new.plugins[Len(old) + 1] = lastCall.pluginEntry
                /\ \A i \in DOMAIN old : new.plugins[i] = old[i]

\* The indices of the tokens that are code: outside comments, and neither
\* a comment delimiter nor the newline that ends a line comment.
RECURSIVE CodeIndices(_, _, _)
CodeIndices(content, i, mode) ==
  IF i > Len(content) THEN {}
  ELSE
    LET stops == {j \in i..Len(content) :
                    content[j] \in (CASE mode = "line"  -> {NL}
                                      [] mode = "block" -> {"*/"}
                                      [] OTHER          -> {"//", "/*"})}
    IN  IF mode = "code"
        THEN IF stops = {} THEN i..Len(content)
             ELSE (i..(MinOf(stops) - 1))
                  \cup CodeIndices(content, MinOf(stops) + 1,
                                   IF content[MinOf(stops)] = "//" THEN "line" ELSE "block")
        ELSE IF stops = {} THEN {}
             ELSE CodeIndices(content, MinOf(stops) + 1, "code")

\* The plugin-list region of a jsonc text: from the "plugin" key of the
\* object to the "]" that closes its list; from = 0 when the key is absent.
PluginListRegion(content) ==
  LET code == CodeIndices(content, 1, "code")
      keys == {i \in code : content[i] = Q("plugin")}
  IN  IF keys = {} THEN [from |-> 0, to |-> 0]
      ELSE LET from == MinOf(keys)
               ends == {e \in code : e > from /\ content[e] = "]"}
           IN  IF ends = {} THEN [from |-> 0, to |-> 0]
               ELSE [from |-> from, to |-> MinOf(ends)]

\* The opening brace of the object, 0 when there is none.
OpeningBrace(content) ==
  LET braces == {i \in CodeIndices(content, 1, "code") : content[i] = "{"}
  IN  IF braces = {} THEN 0 ELSE MinOf(braces)

\* b with its tokens after index lo and up to index hi replaced by
\* something: a keeps b's tokens up to lo and b's tokens after hi.
SameOutside(b, a, lo, hi) ==
  /\ Len(a) >= lo + (Len(b) - hi)
  /\ SubSeq(a, 1, lo) = SubSeq(b, 1, lo)
  /\ SubSeq(a, Len(a) - (Len(b) - hi) + 1, Len(a)) = SubSeq(b, hi + 1, Len(b))

\* C11: for a jsonc host config a successful call leaves every character
\* outside the plugin-list region unchanged: with the plugin key present
\* only the region from the key to the closing bracket is replaced, with
\* the key absent the text is only added to after the opening brace.
C11_JsoncFramePreserved ==
  ( /\ calls >= 1
    /\ lastCall.success
    /\ detectConfigFormat(before).format = "jsonc" ) =>
    LET b == before.files[configJsonc].content
        a == fs.files[configJsonc].content
        region == PluginListRegion(b)
    IN  IF region.from # 0
        THEN SameOutside(b, a, region.from - 1, region.to)
        ELSE SameOutside(b, a, OpeningBrace(b), OpeningBrace(b))

\* The position of a published tag in the order latest, beta, next, then
\* the remaining tags as the registry lists them.
TagRank(distTags, i) ==
  CASE distTags.tags[i].tag = "latest" -> 1
    [] distTags.tags[i].tag = "beta"   -> 2
    [] distTags.tags[i].tag = "next"   -> 3
    [] OTHER                           -> 3 + i

\* C20: getPluginNameWithVersion returns oh-my-opencode@<tag> for the first
\* tag, in the order latest, beta, next, then the other published tags,
\* whose version is the current one; with no such tag or a failed lookup it
\* returns oh-my-opencode@<currentVersion>, and the failed lookup does not
\* make the plugin-ensure operation fail.
C20_TagResolution ==
  calls >= 1 =>
    LET d == lastCall.distTags
        matching == {i \in DOMAIN d.tags : d.tags[i].version = lastCall.version}
    IN  /\ (d.ok /\ matching # {}) =>
             \E i \in matching :
               /\ \A j \in matching : TagRank(d, i) <= TagRank(d, j)
               /\ lastCall.pluginEntry = "oh-my-opencode@" \o d.tags[i].tag
        /\ (~d.ok \/ matching = {}) =>
             lastCall.pluginEntry = "oh-my-opencode@" \o lastCall.version
        /\ ( /\ ~d.ok
             /\ lastCall.io = "ok"
             /\ \/ detectConfigFormat(before).format = "none"
                \/ ReadPlugins(before).ok ) => lastCall.success

C20_Witness ==
  /\ calls >= 1
  /\ lastCall.version = "3.0.0"
  /\ lastCall.distTags.ok
  /\ lastCall.distTags.tags[1].tag = "canary"
  /\ lastCall.pluginEntry = "oh-my-opencode@latest"
  /\ lastCall.success

\* The kinds of unreadable content the host config of `before` has ({} when
\* it is absent or parses to an object).
BadKinds(fs_) ==
  {kind \in DOMAIN BadContents :
     /\ detectConfigFormat(fs_).format # "none"
     /\ fs_.files[detectConfigFormat(fs_).path].content = BadContents[kind]}

\* C17: when the host config exists but is empty, whitespace-only, invalid
\* or not an object, addPluginToOpenCodeConfig returns a failure carrying
\* the parser's diagnosis, writes nothing, and both files keep their bytes.
C17_UnparseableHostRefused ==
  \A kind \in BadKinds(before) :
    calls >= 1 =>
      /\ ~lastResult.success
      /\ lastResult.error = Diagnosis[kind]
      /\ lastResult.configPath = detectConfigFormat(before).path
      /\ lastCall.wrote = 0
      /\ fs.files = before.files

C17_Witness ==
  /\ calls >= 1
  /\ lastCall.io = "ok"
  /\ BadKinds(before) = {"array"}
  /\ fs.files[configJsonc].exists
  /\ ~lastResult.success

\* The class an I/O failure is reported as, by its cause.
IOClass ==
  [ cause \in IOErrors |->
      CASE cause \in {"EACCES", "EPERM"} -> "Permission denied"
        [] cause = "ENOENT"              -> "File not found"
        [] cause = "ENOSPC"              -> "Disk full"
        [] cause = "EROFS"               -> "Read-only filesystem"
        [] OTHER                         -> "Failed to parse config file" ]

\* C16: parseConfigWithError always returns, with exactly one of a config
\* and an error; it returns the config iff the content parses to a non-null
\* non-array object, and otherwise the error tells apart a zero-byte file,
\* a whitespace-only file, a syntax error, null, a wrong shape (naming the
\* type) and an I/O failure, classified by its cause.
C16_ParseOutcomes ==
  output.op = "parse" =>
    LET r == output.result IN
    /\ r.ok <=> (input.io = "ok" /\ input.kind = "object")
    /\ r.ok => (r.config = input.doc /\ r.error = "")
    /\ ~r.ok => (r.config = << >> /\ r.error # "")
    /\ (input.io = "ok" /\ input.kind # "object") => r.error = Diagnosis[input.kind]
    /\ input.io # "ok" => r.error = IOClass[input.io]
    /\ \A k1, k2 \in DOMAIN Diagnosis :
         /\ k1 # k2 => Diagnosis[k1] # Diagnosis[k2]
         /\ \A cause \in IOErrors : Diagnosis[k1] # IOClass[cause]

C16_Witness ==
  /\ output.op = "parse"
  /\ input.io = "ok"
  /\ input.kind = "array"
  /\ output.result.error = "Config file must contain a JSON object, not an array"

(***************************************************************************)
(* Claims about deepMerge, checked under SpecMerge.                        *)
(***************************************************************************)

\* The keys of the documents of SpecMerge, in a fixed order.
MergeKeyOrder == << "custom", "theme", "x", "y" >>

RECURSIVE Canon(_)
\* doc with its members in MergeKeyOrder at every level: two documents
\* hold the same keys with the same values iff their Canon is the same.
Canon(doc) ==
  LET CanonV(v) == IF v.t = "obj" THEN ObjVal(Canon(v.a)) ELSE v
      Pick(i) == IF HasKey(doc, MergeKeyOrder[i])
                 THEN << [k |-> MergeKeyOrder[i], v |-> CanonV(Get(doc, MergeKeyOrder[i]))] >>
                 ELSE << >>
  IN  Pick(1) \o Pick(2) \o Pick(3) \o Pick(4)

RECURSIVE RefMerge(_, _)
\* The reference merge, key by key.
RefMerge(T, S) ==
  LET Value(k) ==
        IF HasKey(S, k)
        THEN IF HasKey(T, k) /\ Get(T, k).t = "obj" /\ Get(S, k).t = "obj"
             THEN ObjVal(RefMerge(Get(T, k).a, Get(S, k).a))
             ELSE Get(S, k)
        ELSE Get(T, k)
      Pick(i) == IF HasKey(S, MergeKeyOrder[i]) \/ HasKey(T, MergeKeyOrder[i])
                 THEN << [k |-> MergeKeyOrder[i], v |-> Value(MergeKeyOrder[i])] >>
                 ELSE << >>
  IN  Canon(Pick(1) \o Pick(2) \o Pick(3) \o Pick(4))

Keys(doc) == {doc[i].k : i \in DOMAIN doc}

\* C12: deepMerge(target, source) is the reference merge: two non-null
\* non-array objects under a source key merge recursively, any other source
\* value (an array included) replaces the target value outright, and a key
\* only the target has keeps its value, at every nesting level.
C12_DeepMergeIsReferenceMerge ==
  output.op = "merge" =>
    /\ Canon(output.TA) = RefMerge(input.T, input.A)
    /\ Canon(output.TB) = RefMerge(input.T, input.B)
    /\ \A k \in Keys(input.T) \ Keys(input.A) : Get(output.TA, k) = Get(input.T, k)
    /\ \A k \in Keys(input.A) :
         Get(input.A, k).t # "obj" => Get(output.TA, k) = Get(input.A, k)

C12_Witness ==
  /\ output.op = "merge"
  /\ HasKey(input.T, "custom") /\ HasKey(input.A, "custom") /\ HasKey(input.T, "theme")
  /\ ~HasKey(input.A, "theme")
  /\ Get(input.T, "custom").t = "obj" /\ Get(input.A, "custom").t = "obj"
  /\ Get(output.TA, "custom") \notin {Get(input.T, "custom"), Get(input.A, "custom")}
  /\ Get(input.T, "theme").t = "arr"

RECURSIVE KeyPaths(_, _)
\* The key paths a source assigns: the path of every value that is not a
\* non-empty object.
KeyPaths(doc, prefix) ==
  UNION { IF doc[i].v.t = "obj" /\ doc[i].v.a # << >>
          THEN KeyPaths(doc[i].v.a, Append(prefix, doc[i].k))
          ELSE {Append(prefix, doc[i].k)} : i \in DOMAIN doc }

IsPrefix(p, q) == Len(p) <= Len(q) /\ SubSeq(q, 1, Len(p)) = p

\* No key path of one source is, or lies under, a key path of the other;
\* sources with no top-level key in common are a special case.
TouchDisjointKeys(A, B) ==
  \A p \in KeyPaths(A, << >>), q \in KeyPaths(B, << >>) :
    ~IsPrefix(p, q) /\ ~IsPrefix(q, p)

\* C13: for two sources that touch disjoint keys, merging A then B into T
\* gives the same document as merging B then A (the same keys with the
\* same values at every level).
C13_DisjointSourcesCommute ==
  (output.op = "merge" /\ TouchDisjointKeys(input.A, input.B)) =>
    Canon(output.TAB) = Canon(output.TBA)

C13_Witness ==
  /\ output.op = "merge"
  /\ Keys(input.A) = {"custom"}
  /\ Keys(input.B) = {"theme"}
  /\ Keys(input.T) = {"custom", "theme"}
  /\ output.TAB # input.T
  /\ output.TAB = output.TBA

(***************************************************************************)
(* Claims about the settings file writer, checked under SpecOmo.           *)
(***************************************************************************)

RECURSIVE ValueAt(_, _)
\* The value under key path p of doc, Absent when the path does not exist.
ValueAt(doc, p) ==
  IF ~HasKey(doc, p[1]) THEN Absent
  ELSE IF Len(p) = 1 THEN Get(doc, p[1])
  ELSE IF Get(doc, p[1]).t # "obj" THEN Absent
  ELSE ValueAt(Get(doc, p[1]).a, Tail(p))

\* The key paths of the user's document that the generator does not
\* produce: neither a generated key, nor under one, nor above one.
UserPaths(doc, config) ==
  {p \in KeyPaths(doc, << >>) :
     \A q \in KeyPaths(generateOmoConfig(config), << >>) :
       ~IsPrefix(p, q) /\ ~IsPrefix(q, p)}

\* C14: when the settings file exists and parses to an object, a
\* successful writeOmoConfig leaves every key the generator does not
\* produce with its value: unrelated top-level keys, user-added agents and
\* categories, and user-added fields inside generated entries.
C14_UserKeysKept ==
  (output.op = "omo" /\ input.kind = "object" /\ output.result.success) =>
    LET after == parseJsonc(omo.content) IN
    /\ after.kind = "object"
    /\ \A p \in UserPaths(input.doc, installConfig) :
         ValueAt(after.doc, p) = ValueAt(input.doc, p)

C14_Witness ==
  /\ output.op = "omo"
  /\ output.result.success
  /\ input.kind = "object"
  /\ installConfig.hasClaude
  /\ << "custom", "x" >> \in UserPaths(input.doc, installConfig)
  /\ << "agents", "my-agent", "model" >> \in UserPaths(input.doc, installConfig)
  /\ << "agents", "oracle", "prompt" >> \in UserPaths(input.doc, installConfig)
  /\ ValueAt(parseJsonc(omo.content).doc, << "agents", "oracle", "model" >>)
       # StrVal("my/model")

\* C15: when the settings file exists but is zero bytes, whitespace only,
\* syntactically invalid or holds null, an array or a scalar, writeOmoConfig
\* returns success and leaves the file it writes when the settings file is
\* absent: the freshly generated document only.
C15_UnreadableSettingsStartFresh ==
  (output.op = "omo" /\ output.io = "ok" /\ input.kind \in DOMAIN BadContents) =>
    /\ output.result.success
    /\ omo = writeOmoConfig([EmptyDir EXCEPT !.dir = TRUE], NoFile, installConfig, "ok").omo
    /\ omo = File(Stringify(generateOmoConfig(installConfig)))

C15_Witness ==
  /\ output.op = "omo"
  /\ output.io = "ok"
  /\ input.kind = "syntax"
  /\ output.result.success
  /\ parseJsonc(omo.content).kind = "object"

(***************************************************************************)
(* Claims about the host config editors, checked under SpecHost.           *)
(***************************************************************************)

\* The host config of a directory as parseConfigWithError reads it.
ReadHost(fs_) ==
  parseConfigWithError(fs_.files[detectConfigFormat(fs_).path], "ok")

\* The key the last operation edits.
EditedKey == IF output.op = "auth" THEN "plugin" ELSE "provider"

\* C18: for a host config that parses to an object, addAuthPlugins and
\* addProviderConfig leave every top-level key other than the one they
\* edit (plugin, respectively provider) with its value, and
\* addProviderConfig leaves every provider entry other than google with
\* its value, for every install configuration.
C18_OtherKeysPreserved ==
  ( /\ output.op \in {"auth", "provider"}
    /\ detectConfigFormat(before).format # "none"
    /\ ReadHost(before).ok ) =>
    LET b == ReadHost(before).config
        a == ReadHost(fs)
    IN  /\ a.ok
        /\ \A k \in Keys(b) \ {EditedKey} : HasKey(a.config, k) /\ Get(a.config, k) = Get(b, k)
        /\ ( /\ output.op = "provider"
             /\ HasKey(b, "provider")
             /\ Get(b, "provider").t = "obj" ) =>
             \A e \in Keys(Get(b, "provider").a) \ {"google"} :
               ValueAt(a.config, << "provider", e >>) = ValueAt(b, << "provider", e >>)

C18_Witness ==
  /\ output.op = "provider"
  /\ installConfig.hasGemini
  /\ lastResult.success
  /\ ReadHost(before).ok
  /\ ValueAt(ReadHost(before).config, << "provider", "google", "name" >>) = StrVal("Mine")
  /\ ValueAt(ReadHost(fs).config, << "provider", "google", "name" >>) = StrVal("Google")
  /\ ValueAt(ReadHost(fs).config, << "provider", "ollama" >>) = OllamaEntry
  /\ HasKey(ReadHost(fs).config, "theme")

(***************************************************************************)
(* Claims about the install run, checked under SpecInstall.                *)
(***************************************************************************)

\* The last run wrote the host config and then failed at the settings file.
SettingsWriteFailedAfterHostWrite ==
  /\ output.op = "install"
  /\ output.hostWrote >= 1
  /\ output.ran[Len(output.ran)] = "omo"
  /\ input.ios.omo # "ok"
  /\ omo = input.omo

\* The run from the same files with the same arguments in which the step
\* `bad` is refused ("none": no step is).
RunRefusing(bad) ==
  runNonTuiInstall(before, input.omo, installConfig, input.installed, input.currentVersion,
                   input.distTags, input.authVersion,
                   [s \in {"plugin", "auth", "provider", "omo"} |->
                      IF s = bad THEN "EACCES" ELSE "ok"])

FirstWriteRefused == RunRefusing("plugin")

\* C19: when the host config write succeeds and the later settings file
\* write fails in the same run, the result returned to the caller differs
\* from the result of a run in which the first write failed, and the host
\* config keeps the changes already written.
C19_PartialFailureDistinguishable ==
  SettingsWriteFailedAfterHostWrite =>
    /\ fs.files = RunRefusing("none").fs.files
    /\ ExistingIndex(PluginsOf(ReadHost(fs).config)) # 0
    /\ FirstWriteRefused.ran = << "plugin" >> => output.exit # FirstWriteRefused.exit

\* The part of C19 that holds: no rollback of the host config.
C19_HostConfigKeepsChanges ==
  SettingsWriteFailedAfterHostWrite =>
    /\ fs.files = RunRefusing("none").fs.files
    /\ ExistingIndex(PluginsOf(ReadHost(fs).config)) # 0

(***************************************************************************)
(* Claims about the format detector, checked under SpecDetect.             *)
(***************************************************************************)

SecondRunOver ==
  /\ calls = 2
  /\ pc = "returned"
  /\ \A i \in DOMAIN output.ios : output.ios[i] = "ok"

\* C22: for every install configuration and every initial state of the two
\* files, running the whole install sequence a second time with the same
\* configuration and the same registry answers leaves the host config and
\* the settings file byte-identical to their state after the first run.
C22_InstallTwiceSameFiles ==
  SecondRunOver =>
    /\ fs = lastCall.fs
    /\ omo = lastCall.omo

\* The calls of a run that return a ConfigMergeResult, in the order
\* runNonTuiInstall and install make them for config.
InstallSteps(config) ==
  IF config.hasGemini
  THEN << "addPluginToOpenCodeConfig", "addAuthPlugins", "addProviderConfig",
          "writeOmoConfig" >>
  ELSE << "addPluginToOpenCodeConfig", "writeOmoConfig" >>

\* The call that follows the i-th one, "returned" after the last.
StepAfter(config, i) ==
  IF i < Len(InstallSteps(config)) THEN InstallSteps(config)[i + 1] ELSE "returned"

\* C24: the install steps run in the fixed order plugin entry, auth plugins,
\* provider block, settings file (the middle two when Gemini is chosen);
\* a step that succeeds is followed by the next one, the first step that
\* returns a failure result ends the run with exit code 1, so that no later
\* step is executed and none is made twice, and the settings file changes
\* only in the settings step, reached after every earlier step succeeded.
C24_FixedOrderFirstFailureEnds ==
  [][ /\ \A i \in DOMAIN InstallSteps(installConfig) :
           pc = InstallSteps(installConfig)[i] =>
             /\ output.ran = SubSeq(InstallSteps(installConfig), 1, i - 1)
             /\ \A j \in DOMAIN output.results : output.results[j]
             /\ output'.ran = SubSeq(InstallSteps(installConfig), 1, i)
             /\ IF lastResult'.success
                THEN /\ pc' = StepAfter(installConfig, i)
                     /\ output'.exit = IF pc' = "returned" THEN 0 ELSE -1
                ELSE /\ pc' = "returned"
                     /\ output'.exit = 1
      /\ pc \in {"addAuthPlugins", "addProviderConfig"} => installConfig.hasGemini
      /\ omo' # omo => pc = "writeOmoConfig"
      /\ pc = "returned" => output'.ran = << >> ]_vars

\* A run with Gemini whose provider step was refused: three steps made, the
\* host config written twice, exit code 1 and the settings file untouched.
C24_Witness ==
  /\ pc = "returned"
  /\ installConfig.hasGemini
  /\ output.ran = << "addPluginToOpenCodeConfig", "addAuthPlugins", "addProviderConfig" >>
  /\ output.results = << TRUE, TRUE, FALSE >>
  /\ output.exit = 1
  /\ fs # before
  /\ omo = output.omoAtStart

(***************************************************************************)
(* Claims about regeneration, checked under SpecRegenerate.                *)
(***************************************************************************)

\* The file writeOmoConfig(config) leaves when it finds none.
WrittenAlone(config) ==
  writeOmoConfig([EmptyDir EXCEPT !.dir = TRUE], NoFile, config, "ok").omo

\* C23: starting from an absent settings file, after writeOmoConfig(c1)
\* followed by writeOmoConfig(c2) the file equals the file produced by
\* writeOmoConfig(c2) alone, for every pair of install configurations.
C23_RegenerationOverwrites ==
  pc = "done" => omo = WrittenAlone(input.c2)

\* The tokens of content at the indices idx, in the order of the text.
TokensAt(content, idx) ==
  [j \in 1..Cardinality(idx) |->
     content[CHOOSE i \in idx : Cardinality({k \in idx : k < i}) = j - 1]]

\* The comments of a jsonc text outside its plugin list, delimiters
\* included, in the order of the text.
CommentsOutside(content) ==
  IF \A i \in DOMAIN content : content[i] \notin {"//", "/*"} THEN << >>
  ELSE
  CHOOSE c \in { TokensAt(content,
                          {i \in DOMAIN content :
                             /\ i \notin code
                             /\ ~(region.from # 0 /\ i >= region.from /\ i <= region.to)}) :
                   code \in {CodeIndices(content, 1, "code")},
                   region \in {PluginListRegion(content)} } : TRUE

\* A run that made every step of its configuration and returned 0, on a
\* host config in the commented format that had a comment outside its
\* plugin list.
CommentedRunOver ==
  /\ pc = "returned"
  /\ output.exit = 0
  /\ detectConfigFormat(before).format = "jsonc"
  /\ CommentsOutside(before.files[configJsonc].content) # << >>

\* C25: after a complete successful install run on a commented host config
\* the comments outside the plugin list are the ones the run found, for
\* every install configuration, Gemini included.
C25_CommentsSurviveInstall ==
  CommentedRunOver =>
    /\ fs.files[configJsonc].exists
    /\ CommentsOutside(fs.files[configJsonc].content)
         = CommentsOutside(before.files[configJsonc].content)

(***************************************************************************)
(* Claims about the auth-plugin and provider steps on a host config that   *)
(* does not parse, checked under SpecHost                                  *)
(***************************************************************************)

\* C26: addAuthPlugins and addProviderConfig, called on an existing host
\* config that is empty, whitespace only, syntactically invalid or not an
\* object, leave both files of the config directory byte-identical.
C26_UnparseableHostKept ==
  ( /\ calls >= 1
    /\ output.op \in {"auth", "provider"}
    /\ BadKinds(before) # {} ) =>
    fs.files = before.files

(***************************************************************************)
(* Claims about the config context of a run, checked under SpecRun         *)
(***************************************************************************)

\* C27: the config context is fixed once per run: once detectCurrentConfig
\* has read it, at every later point of the same run the context is the
\* value detection read.
C27_ContextFixedPerRun ==
  pc \notin {"detectCurrentConfig", "threw"} =>
    configContext = output.contextAtDetection

(***************************************************************************)
(* Claims about the provider flags and the generated models, checked under *)
(* SpecModel                                                               *)
(***************************************************************************)

FlagOfPrefix ==
  [ prefix \in {"anthropic/", "openai/", "google/", "opencode/", "github-copilot/",
                "zai-coding-plan/"} |->
      CASE prefix = "anthropic/"      -> "hasClaude"
        [] prefix = "openai/"         -> "hasOpenAI"
        [] prefix = "google/"         -> "hasGemini"
        [] prefix = "opencode/"       -> "hasOpencodeZen"
        [] prefix = "github-copilot/" -> "hasCopilot"
        [] OTHER                      -> "hasZaiCodingPlan" ]

\* The model identifiers a generated configuration assigns.
AssignedModels(config) ==
  {config.agents[role].model : role \in DOMAIN config.agents}
    \cup {config.categories[cat].model : cat \in DOMAIN config.categories}

\* C29: every model identifier generateModelConfig assigns to a role or a
\* category belongs to a provider whose flag is set in the install
\* configuration, or is the ultimate fallback opencode/glm-4.7-free.
C29_ModelsFromEnabledProviders ==
  pc = "generated" =>
    \A model \in AssignedModels(generated) :
      \/ model = ULTIMATE_FALLBACK
      \/ \E prefix \in DOMAIN FlagOfPrefix :
           /\ StartsWith(model, prefix)
           /\ installConfig[FlagOfPrefix[prefix]]

(***************************************************************************)
(* Claims about detection after an install, checked under SpecRun          *)
(***************************************************************************)

\* The first run is over with exit code 0 and had found a config directory
\* without a host config and without a settings file.
InstalledIntoEmptyDir ==
  /\ calls = 1
  /\ pc = "returned"
  /\ output.exit = 0
  /\ \A p \in {configJsonc, configJson} : ~before.files[p].exists
  /\ ~output.omoAtStart.exists

\* C30: after a successful install with configuration c into a config
\* directory that held no files, detectCurrentConfig reports isInstalled
\* = true and hasOpencodeZen = c.hasOpencodeZen.
C30_DetectionRoundTrip ==
  InstalledIntoEmptyDir =>
    LET detected == detectCurrentConfig(fs, omo)
    IN  /\ detected.isInstalled
        /\ detected.hasOpencodeZen = installConfig.hasOpencodeZen

====
